---- MODULE Spec2Model ----
(***************************************************************************)
(* Siemply orchestration engine: Orchestrator.run_playbook and the code it *)
(* drives (core/orchestrator.py, core/task_runner.py, core/ssh_executor.py,*)
(* core/audit.py, core/inventory.py).                                      *)
(*                                                                         *)
(* Python objects carry their representation: a "dict" answers .get() and  *)
(* subscripting, a "dataclass" instance (Host, TaskResult, SSHResult)      *)
(* answers neither and raises AttributeError / TypeError instead.  Hosts   *)
(* reach the orchestrator either as the mappings every signature of the    *)
(* orchestrator, task runner and ssh executor declares (Dict[str, Any]),   *)
(* or as the Host dataclass instances core/inventory.py builds.            *)
(*                                                                         *)
(* asyncio is cooperative: a coroutine runs without interleaving up to its *)
(* next suspension (a remote operation or a sleep), so one action is one   *)
(* such run-to-suspension step.                                            *)
(***************************************************************************)
EXTENDS Integers, Sequences, FiniteSets, TLC

VARIABLES
    cfg,             \* RunConfig + playbook document of the run (immutable)
    pc,              \* position of run_playbook
    target_hosts,    \* resolved, de-duplicated, limited host list
    epc,             \* position inside _execute_rolling / _execute_parallel
    i,               \* _execute_rolling: loop variable of range(0, len(hosts), batch_size)
    batch,           \* _execute_rolling: hosts[i:i + batch_size]
    bpos,            \* _execute_rolling: position of the inner "for host in batch"
    cur,             \* _execute_rolling: host id the coroutine is awaiting, or NoHost
    batch_results,   \* _execute_rolling: batch_results dict
    batches,         \* history: the batches dispatched so far
    sleeps,          \* history: the seconds of each asyncio.sleep(batch_delay) made
    pi,              \* _execute_parallel: position of the "for host, task in tasks" loop
    sem,             \* _execute_parallel: value of asyncio.Semaphore(config.forks)
    hst,             \* per host id: the _execute_host_tasks coroutine
    results,         \* results dict: host id -> host_results
    remoteLog,       \* per host id: exit codes of the remote operations issued
    taskExecutions,  \* rows of the audit store's task_executions table
    run_result,      \* the RunResult created by run_playbook, or NoRunResult
    report,          \* whether the run report artifact was written
    calc,            \* a direct call of _calculate_run_status: input and output
    timed_out,       \* whether config.timeout seconds have passed since start_time
    connections,     \* SSHExecutor.connections: host id -> cached connection, 0 for no entry
    established,     \* history: per host id, connections established since the last close
    op,              \* per caller: its call of SSHExecutor.execute_command
    scr,             \* a call of execute_script / _execute_script: its position and effects
    sm,              \* the SecretsManager: its backends and what get_secret has returned
    db,              \* the audit database, the clock, and the last query made
    inv,             \* an Inventory object: its hosts, groups and the last call made on it
    ft,              \* a host's files and the results of the file tasks applied to it
    px               \* a PlaybookExecutor call: the Run, the host threads, the collecting loop

vars == <<cfg, pc, target_hosts, epc, i, batch, bpos, cur, batch_results, batches,
          sleeps, pi, sem, hst, results, remoteLog, taskExecutions, run_result,
          report, calc, timed_out, connections, established, op, scr, sm, db,
          inv, ft, px>>

\* the state of a playbook run and of the SSH executor
coreVars == <<cfg, pc, target_hosts, epc, i, batch, bpos, cur, batch_results, batches,
              sleeps, pi, sem, hst, results, remoteLog, taskExecutions, run_result,
              report, calc, timed_out, connections, established, op>>

\* the state of the SSH executor
sshVars == <<connections, established, op>>

----------------------------------------------------------------------------
(* Bounds *)

MaxTasks == 2        \* longest task list of a playbook
MaxBatchSize == 2    \* largest configured batch size
MaxForks == 2        \* largest configured forks value
MaxLimit == 1        \* largest configured host limit
MaxCallers == 2      \* coroutines calling the SSH executor at the same time

(* Program constants *)

\* RunConfig.batch_delay: int = 300, and execution.get('batch_delay', 300)
DefaultBatchDelay == 300

DefaultBatchSize == 10        \* execution.get('batch_size', 10)
ArgsPassedToLog == 3          \* log_task_execution(host, task_config, task_result)
ArgsRequiredByLog == 4        \* def log_task_execution(self, host, task_config, task_result, run_id)
TimeoutExitCode == 124        \* exit_code=124,  # Timeout exit code
FailureExitCode == 1          \* exit_code=1 of the "except Exception" clause

NoHost == "-"
Absent == "absent"
NoError == "None"

----------------------------------------------------------------------------
(* Inventory: hosts and groups as Inventory._parse_group builds them.      *)
(* db-02 has the same ansible_host as web-01.                              *)

Addresses == {"a1", "a2", "a3"}

InventoryHosts ==
    [n \in {"web-01", "web-02", "db-01", "db-02"} |->
        [name |-> n,
         ansible_host |-> CASE n = "web-01" -> "a1"
                            [] n = "web-02" -> "a2"
                            [] n = "db-01"  -> "a3"
                            [] n = "db-02"  -> "a1"]]

InventoryGroups ==
    [g \in {"all", "web", "db"} |->
        CASE g = "all" -> [hosts |-> <<>>, children |-> <<"web", "db">>]
          [] g = "web" -> [hosts |-> <<"web-01", "web-02">>, children |-> <<>>]
          [] g = "db"  -> [hosts |-> <<"db-01", "db-02">>, children |-> <<>>]]

\* Inventory.get_host: self.hosts.get(host_name), as a list of zero or one Host
get_host(host_name) ==
    IF host_name \in DOMAIN InventoryHosts THEN <<InventoryHosts[host_name]>> ELSE <<>>

RECURSIVE get_group_hosts(_)
RECURSIVE ChildrenHosts(_)
ChildrenHosts(children) ==
    IF children = <<>> THEN <<>>
    ELSE get_group_hosts(Head(children)) \o ChildrenHosts(Tail(children))

\* Inventory.get_group_hosts: direct hosts, then the hosts of each child group
get_group_hosts(group_name) ==
    IF group_name \notin DOMAIN InventoryGroups THEN <<>>
    ELSE LET group == InventoryGroups[group_name] IN
         [k \in 1..Len(group.hosts) |-> InventoryHosts[group.hosts[k]]]
             \o ChildrenHosts(group.children)

----------------------------------------------------------------------------
(* Python object protocol *)

\* obj.get(...) exists on a dict only
HasGet(kind) == kind = "dict"

\* obj[key] works on a dict only
Subscriptable(kind) == kind = "dict"

\* host.get('ansible_host', host.get('name')): the host id, or AttributeError
HostId(kind, host) ==
    IF HasGet(kind) THEN host.ansible_host ELSE "AttributeError"

\* seq[:n] of Python
SlicePrefix(seq, n) ==
    LET len == Len(seq)
        m == IF n >= 0 THEN (IF n < len THEN n ELSE len)
             ELSE (IF len + n > 0 THEN len + n ELSE 0)
    IN SubSeq(seq, 1, m)

\* seq[a:b] of Python for 0 <= a <= b
Slice(seq, a, b) ==
    LET len == Len(seq)
        hi == IF b < len THEN b ELSE len
    IN IF a >= hi THEN <<>> ELSE SubSeq(seq, a + 1, hi)

\* dict[k] = v
DictSet(d, k, v) == [x \in DOMAIN d \cup {k} |-> IF x = k THEN v ELSE d[x]]

\* dict.update(e)
DictUpdate(d, e) == [x \in DOMAIN d \cup DOMAIN e |-> IF x \in DOMAIN e THEN e[x] ELSE d[x]]

EmptyDict == [x \in {} |-> Absent]

\* len([r for r in results.values() if r.get('status') == s])
CountStatus(d, s) == Cardinality({k \in DOMAIN d : d[k].status = s})

----------------------------------------------------------------------------
(* Task engine: TaskRunner.execute_task and its handlers *)

\* keys of self.task_types that the modelled playbooks use
task_types == {"command", "checkpoint"}

\* representation of the objects the code constructs
SSHResultKind == "dataclass"       \* SSHExecutor.execute_command returns SSHResult(...)
TaskResultKind == "dataclass"      \* TaskRunner.execute_task returns TaskResult(...)

\* the task specs of the modelled playbooks
\* when / only_if: "none" (key absent), "true", "false" (what the condition
\* evaluates to), "error" (its evaluation raises); tags: task_config.get('tags', [])
TaskSpec(task, ignore_errors, when, only_if, tags) ==
    [task |-> task, ignore_errors |-> ignore_errors, when |-> when,
     only_if |-> only_if, tags |-> tags]

TaskSpecs ==
    { TaskSpec("command",    FALSE, "none",  "none", {}),
      TaskSpec("command",    TRUE,  "none",  "none", {}),
      TaskSpec("checkpoint", FALSE, "none",  "none", {}),
      TaskSpec("command",    FALSE, "false", "none", {}),
      TaskSpec("bogus",      FALSE, "none",  "none", {}) }

\* task specs whose when or only_if condition cannot be evaluated
RaisingConditionSpecs ==
    { TaskSpec("command", FALSE, "error", "none",  {}),
      TaskSpec("command", FALSE, "none",  "error", {}) }

\* the task specs of the playbooks that are run with tag filters
TaggedTaskSpecs ==
    { TaskSpec("command",    FALSE, "true", "none",  {"deploy"}),
      TaskSpec("command",    FALSE, "none", "true",  {"deploy", "slow"}),
      TaskSpec("command",    FALSE, "none", "false", {"deploy"}),
      TaskSpec("checkpoint", FALSE, "none", "none",  {}) }

\* outcomes of one remote operation and the exit code SSHResult carries for it
OpOutcomes == {"ok", "nonzero"}

ExitCode(outcome) ==
    IF outcome = "ok" THEN 0 ELSE 1

\* number of awaited remote operations of a handler:
\* _execute_command: execute_command; _execute_checkpoint: execute_command, copy_file
RemoteOps(task_type) == IF task_type = "checkpoint" THEN 2 ELSE 1

\* TaskRunner._evaluate_condition: eval(condition) inside try, and a bare
\* except that returns False
_evaluate_condition(condition) ==
    IF condition = "error" THEN FALSE ELSE condition = "true"

\* a skip test that does not look at the run's tag filters
_should_skip_taskNoTags(task_config, run_config) ==
    \/ task_config.when # "none" /\ _evaluate_condition(task_config.when) = FALSE
    \/ task_config.only_if # "none" /\ _evaluate_condition(task_config.only_if) = FALSE

\* TaskRunner._should_skip_task: a 'when' or 'only_if' that evaluates false,
\* a non-empty run_config.tags none of which the task carries, or a
\* run_config.skip_tags one of which the task carries
_should_skip_task(task_config, run_config) ==
    \/ task_config.when # "none" /\ _evaluate_condition(task_config.when) = FALSE
    \/ task_config.only_if # "none" /\ _evaluate_condition(task_config.only_if) = FALSE
    \/ run_config.tags # {} /\ run_config.tags \cap task_config.tags = {}
    \/ run_config.skip_tags # {} /\ run_config.skip_tags \cap task_config.tags # {}

TaskResult(k, status, error) == [name |-> k, status |-> status, error |-> error]

\* what the handler hands back once its last remote operation returned:
\* a result dict, or the exception it raises
HandlerReturn(task_type, exit_code) ==
    IF task_type = "command"
    THEN \* 'success' if result['exit_code'] == 0 else 'failed'
         IF Subscriptable(SSHResultKind)
         THEN [raised |-> FALSE,
               status |-> IF exit_code = 0 THEN "success" ELSE "failed",
               error |-> IF exit_code = 0 THEN NoError ELSE "stderr"]
         ELSE [raised |-> TRUE, status |-> "failed", error |-> "TypeError: SSHResult"]
    ELSE \* _execute_checkpoint returns {'status': 'success', ...}
         [raised |-> FALSE, status |-> "success", error |-> NoError]

\* await self.audit.log_task_execution(host, task_config, task_result):
\* the call binds only when it passes the parameters the method requires
LogTaskExecutionBinds == ArgsPassedToLog = ArgsRequiredByLog

\* a finish that swallows the handler's exception
ExecuteTaskFinishSwallows(k, task_config, exit_code) ==
    LET result == HandlerReturn(task_config.task, exit_code) IN
    IF result.raised
    THEN [tr |-> TaskResult(k, "success", NoError), logged |-> FALSE]
    ELSE IF LogTaskExecutionBinds
         THEN [tr |-> TaskResult(k, result.status, result.error), logged |-> TRUE]
         ELSE [tr |-> TaskResult(k, "failed", "TypeError: run_id"), logged |-> FALSE]

\* TaskRunner.execute_task from the handler's return on: builds the TaskResult,
\* logs it, and turns any exception into a 'failed' TaskResult.
\* logged: whether a task_executions row was written
ExecuteTaskFinish(k, task_config, exit_code) ==
    LET result == HandlerReturn(task_config.task, exit_code) IN
    IF result.raised
    THEN [tr |-> TaskResult(k, "failed", result.error), logged |-> FALSE]
    ELSE IF LogTaskExecutionBinds
         THEN [tr |-> TaskResult(k, result.status, result.error), logged |-> TRUE]
         ELSE [tr |-> TaskResult(k, "failed", "TypeError: run_id"), logged |-> FALSE]

----------------------------------------------------------------------------
(* Orchestrator._execute_host_tasks as a coroutine *)

HostResults(status, error, tasks) == [status |-> status, error |-> error, tasks |-> tasks]

\* a host coroutine that has not been created
NoCoroutine ==
    [st |-> "none", k |-> 0, started |-> 0, opsLeft |-> 0, batchNo |-> 0,
     res |-> HostResults("success", NoError, <<>>)]

\* a loop body that never leaves the loop
LoopDecisionNoBreak(task_result) == "continue"

\* what the loop body does with a task result (lines 307-313):
\* "raise" (task_result.get is no attribute), "break" or "continue"
LoopDecision(task_result) ==
    IF ~HasGet(TaskResultKind) THEN "raise"
    ELSE IF task_result.status = "failed" THEN "break"
    ELSE "continue"

\* a dispatch that does not wait for the handler before the next task starts
DispatchNoAwait(h, task_config) ==
    [h EXCEPT !.st = "awaiting", !.opsLeft = RemoteOps(task_config.task),
              !.started = h.k + 1]

\* result = await self.task_types[task_type](args, host, run_config):
\* the coroutine is suspended in the handler's first remote operation
Dispatch(h, task_config) ==
    [h EXCEPT !.st = "awaiting", !.opsLeft = RemoteOps(task_config.task)]

\* a type lookup that finds every type
UnknownTypeNever(task_type) == FALSE

\* if task_type not in self.task_types: raise ValueError(...)
UnknownType(task_type) == task_type \notin task_types

RECURSIVE Advance(_, _)
RECURSIVE AfterTask(_, _, _)

\* the coroutine about to run task h.k of the task list: runs on, without
\* suspending, until a handler awaits a remote operation or the host is done
Advance(tasks, h) ==
    IF h.k > Len(tasks)
    THEN [h EXCEPT !.st = "done"]
    ELSE LET task_config == tasks[h.k]
             h1 == [h EXCEPT !.started = h.k]
         IN IF _should_skip_task(task_config, cfg)
            THEN AfterTask(tasks, h1, TaskResult(h.k, "skipped", NoError))
            ELSE IF UnknownType(task_config.task)
            THEN AfterTask(tasks, h1, TaskResult(h.k, "failed", "ValueError: task type"))
            ELSE Dispatch(h1, task_config)

\* host_results['tasks'].append(task_result), the failure check, the except clause
AfterTask(tasks, h, task_result) ==
    LET appended == Append(h.res.tasks, task_result)
        decision == LoopDecision(task_result)
    IN CASE decision = "raise" ->
              [h EXCEPT !.st = "done",
                        !.res = HostResults("failed", "AttributeError: get", appended)]
         [] decision = "break" ->
              [h EXCEPT !.st = "done",
                        !.res = HostResults("failed", task_result.error, appended)]
         [] OTHER ->
              Advance(tasks, [h EXCEPT !.k = h.k + 1,
                                       !.res = HostResults(h.res.status, h.res.error, appended)])

\* the coroutine from its first statement
HostBegin(tasks, batchNo) ==
    Advance(tasks, [NoCoroutine EXCEPT !.k = 1, !.batchNo = batchNo])

\* a caller that does not wait for the host execution
HostReturnedEarly(h) == h.st \in {"awaiting", "done"}

\* the condition under which "await <host execution>" lets the caller go on
HostReturned(h) == h.st = "done"

InFlight == {id \in Addresses : hst[id].st = "awaiting"}

\* a remote operation of host id returns with the given outcome
CmdReturn(id, outcome) ==
    /\ pc = "executing"
    /\ hst[id].st = "awaiting"
    \* the event loop first starts every created task, then polls I/O
    /\ \A x \in Addresses : hst[x].st # "scheduled"
    /\ LET h == hst[id]
           task_config == cfg.tasks[h.k]
           fin == ExecuteTaskFinish(h.k, task_config, ExitCode(outcome))
       IN /\ remoteLog' = [remoteLog EXCEPT ![id] = Append(@, ExitCode(outcome))]
          /\ IF h.opsLeft > 1
             THEN /\ hst' = [hst EXCEPT ![id].opsLeft = h.opsLeft - 1]
                  /\ UNCHANGED taskExecutions
             ELSE /\ hst' = [hst EXCEPT ![id] =
                                AfterTask(cfg.tasks, [h EXCEPT !.opsLeft = 0], fin.tr)]
                  /\ taskExecutions' =
                        IF fin.logged
                        THEN Append(taskExecutions,
                                    [host |-> id, task_name |-> h.k, status |-> fin.tr.status])
                        ELSE taskExecutions
    /\ UNCHANGED <<timed_out, sshVars>>
    /\ UNCHANGED <<scr, sm, db>>
    /\ UNCHANGED <<inv, ft, px>>
    /\ UNCHANGED <<cfg, pc, target_hosts, epc, i, batch, bpos, cur, batch_results,
                   batches, sleeps, pi, sem, results, run_result, report, calc>>

----------------------------------------------------------------------------
(* Orchestrator *)

\* _calculate_run_status testing "no host succeeded" before "no host failed"
calculate_run_status_swapped(res) ==
    LET total == Cardinality(DOMAIN res)
        successful == CountStatus(res, "success")
        failed == CountStatus(res, "failed")
    IN IF total = 0 THEN "skipped"
       ELSE IF successful = 0 THEN "failed"
       ELSE IF failed = 0 THEN "success"
       ELSE "partial"

\* Orchestrator._calculate_run_status
_calculate_run_status(res) ==
    LET total == Cardinality(DOMAIN res)
        successful == CountStatus(res, "success")
        failed == CountStatus(res, "failed")
    IN IF total = 0 THEN "skipped"
       ELSE IF failed = 0 THEN "success"
       ELSE IF successful = 0 THEN "failed"
       ELSE "partial"

\* the named hosts the inventory knows, in the order named
RECURSIVE NamedHosts(_)
NamedHosts(names) ==
    IF names = <<>> THEN <<>>
    ELSE get_host(Head(names)) \o NamedHosts(Tail(names))

\* the hosts of the named groups, in the order named
RECURSIVE GroupHosts(_)
GroupHosts(groups) ==
    IF groups = <<>> THEN <<>>
    ELSE get_group_hosts(Head(groups)) \o GroupHosts(Tail(groups))

\* a resolution that keeps every occurrence of a host
RemoveDuplicatesKeepAll(kind, hosts, seen, unique_hosts) == unique_hosts \o hosts

\* the "remove duplicates" loop: first occurrence of each host id is kept
RECURSIVE RemoveDuplicates(_, _, _, _)
RemoveDuplicates(kind, hosts, seen, unique_hosts) ==
    IF hosts = <<>> THEN unique_hosts
    ELSE LET host == Head(hosts)
             host_id == HostId(kind, host)
         IN IF host_id \notin seen
            THEN RemoveDuplicates(kind, Tail(hosts), seen \cup {host_id},
                                  Append(unique_hosts, host))
            ELSE RemoveDuplicates(kind, Tail(hosts), seen, unique_hosts)

\* Orchestrator._resolve_target_hosts: the unique hosts, or the exception of
\* host.get on the first host when hosts are not mappings
_resolve_target_hosts(config) ==
    LET hosts == NamedHosts(config.target_hosts) \o GroupHosts(config.target_groups)
    IN IF hosts # <<>> /\ ~HasGet(config.hostRepr)
       THEN [raised |-> TRUE, hosts |-> <<>>]
       ELSE [raised |-> FALSE,
             hosts |-> RemoveDuplicates(config.hostRepr, hosts, {}, <<>>)]

\* config.batch_size or execution.get('batch_size', 10)
EffectiveBatchSize(config) ==
    IF config.batch_size # 0 THEN config.batch_size
    ELSE config.pb_batch_size

\* config.batch_delay or execution.get('batch_delay', 300): 0 is falsy
EffectiveBatchDelay(config) ==
    IF config.batch_delay # 0 THEN config.batch_delay
    ELSE config.pb_batch_delay

Id(host) == HostId(cfg.hostRepr, host)

\* a batch slice one host too long
BatchOfOverlap(hosts, idx, batch_size) == Slice(hosts, idx, idx + batch_size + 1)

\* hosts[i:i + batch_size]
BatchOf(hosts, idx, batch_size) == Slice(hosts, idx, idx + batch_size)

\* a loop that gives up after a batch with a failed host
NextIndexAbort(idx, batch_size, batchResults) ==
    IF \E k \in DOMAIN batchResults : batchResults[k].status = "failed"
    THEN idx + batch_size + Len(target_hosts)
    ELSE idx + batch_size

\* the value the range loop takes after idx
NextIndex(idx, batch_size, batchResults) == idx + batch_size

\* the statements of run_playbook's try block, in order
RunPhases == <<"loading", "resolving", "executing", "aggregating", "reporting", "done">>

\* an except clause that starts the run over instead of re-raising
NextPhaseRetry(phase, exc) ==
    IF exc THEN "loading"
    ELSE RunPhases[(CHOOSE k \in 1..Len(RunPhases) : RunPhases[k] = phase) + 1]

\* where run_playbook goes from a statement of its try block: to the next
\* statement, or out through the except clause, which re-raises
NextPhase(phase, exc) ==
    IF exc THEN "raised"
    ELSE RunPhases[(CHOOSE k \in 1..Len(RunPhases) : RunPhases[k] = phase) + 1]

\* _load_playbook: the document is read and its required fields checked
LoadPlaybook ==
    /\ pc = "loading"
    /\ pc' = NextPhase("loading", ~cfg.playbook_ok)
    /\ UNCHANGED <<timed_out, sshVars>>
    /\ UNCHANGED <<scr, sm, db>>
    /\ UNCHANGED <<inv, ft, px>>
    /\ UNCHANGED <<cfg, target_hosts, epc, i, batch, bpos, cur, batch_results, batches,
                   sleeps, pi, sem, hst, results, remoteLog, taskExecutions, run_result,
                   report, calc>>

\* _resolve_target_hosts, then target_hosts[:config.limit] when a limit is set
ResolveTargetHosts ==
    /\ pc = "resolving"
    /\ LET r == _resolve_target_hosts(cfg) IN
       IF r.raised
       THEN /\ pc' = NextPhase("resolving", TRUE)
            /\ UNCHANGED target_hosts
       ELSE /\ pc' = NextPhase("resolving", FALSE)
            /\ target_hosts' = IF cfg.limit # 0 THEN SlicePrefix(r.hosts, cfg.limit)
                               ELSE r.hosts
    /\ UNCHANGED <<timed_out, sshVars>>
    /\ UNCHANGED <<scr, sm, db>>
    /\ UNCHANGED <<inv, ft, px>>
    /\ UNCHANGED <<cfg, epc, i, batch, bpos, cur, batch_results, batches,
                   sleeps, pi, sem, hst, results, remoteLog, taskExecutions, run_result,
                   report, calc>>

\* _execute_playbook: picks the strategy; for 'parallel' creates one asyncio
\* task per host and the semaphore, and enters the collecting loop, where
\* the coroutine suspends on the first host's task
ExecutePlaybook ==
    /\ pc = "executing"
    /\ epc = "start"
    /\ CASE cfg.strategy = "rolling" ->
              IF EffectiveBatchSize(cfg) = 0
              THEN \* range() arg 3 must not be zero
                   /\ pc' = NextPhase("executing", TRUE)
                   /\ UNCHANGED <<epc, hst, sem, pi>>
              ELSE /\ epc' = "rolling_loop"
                   /\ UNCHANGED <<pc, hst, sem, pi>>
         [] cfg.strategy = "parallel" ->
              /\ hst' = [id \in Addresses |->
                            IF \E k \in 1..Len(target_hosts) : Id(target_hosts[k]) = id
                            THEN [NoCoroutine EXCEPT !.st = "scheduled"]
                            ELSE hst[id]]
              /\ IF target_hosts = <<>>
                 THEN /\ pc' = NextPhase("executing", FALSE)
                      /\ epc' = "finished"
                      /\ sem' = cfg.forks
                      /\ UNCHANGED pi
                 ELSE /\ epc' = "parallel_wait"
                      /\ sem' = cfg.forks - 1
                      /\ pi' = 1
                      /\ UNCHANGED pc
         [] OTHER ->
              \* Unknown execution strategy
              /\ pc' = NextPhase("executing", TRUE)
              /\ UNCHANGED <<epc, hst, sem, pi>>
    /\ UNCHANGED <<timed_out, sshVars>>
    /\ UNCHANGED <<scr, sm, db>>
    /\ UNCHANGED <<inv, ft, px>>
    /\ UNCHANGED <<cfg, target_hosts, i, batch, bpos, cur, batch_results, batches,
                   sleeps, results, remoteLog, taskExecutions, run_result, report, calc>>

\* _execute_rolling: the head of "for i in range(0, len(hosts), batch_size)"
RollingNextBatch ==
    /\ pc = "executing"
    /\ epc = "rolling_loop"
    /\ LET batch_size == EffectiveBatchSize(cfg) IN
       IF batch_size > 0 /\ i < Len(target_hosts)
       THEN /\ batch' = BatchOf(target_hosts, i, batch_size)
            /\ batch_results' = EmptyDict
            /\ batches' = Append(batches, [k \in 1..Len(batch') |-> Id(batch'[k])])
            /\ bpos' = 1
            /\ epc' = "rolling_hosts"
            /\ UNCHANGED pc
       ELSE /\ pc' = NextPhase("executing", FALSE)
            /\ epc' = "finished"
            /\ UNCHANGED <<batch, batch_results, batches, bpos>>
    /\ UNCHANGED <<timed_out, sshVars>>
    /\ UNCHANGED <<scr, sm, db>>
    /\ UNCHANGED <<inv, ft, px>>
    /\ UNCHANGED <<cfg, target_hosts, i, cur, sleeps, pi, sem, hst, results, remoteLog,
                   taskExecutions, run_result, report, calc>>

\* _execute_rolling: "for host in batch" calls _execute_host_tasks and awaits it
RollingHostBegin ==
    /\ pc = "executing"
    /\ epc = "rolling_hosts"
    /\ cur = NoHost
    /\ bpos <= Len(batch)
    /\ LET id == Id(batch[bpos]) IN
       /\ hst' = [hst EXCEPT ![id] = HostBegin(cfg.tasks, Len(batches))]
       /\ cur' = id
    /\ UNCHANGED <<timed_out, sshVars>>
    /\ UNCHANGED <<scr, sm, db>>
    /\ UNCHANGED <<inv, ft, px>>
    /\ UNCHANGED <<cfg, pc, target_hosts, epc, i, batch, bpos, batch_results, batches,
                   sleeps, pi, sem, results, remoteLog, taskExecutions, run_result,
                   report, calc>>

\* _execute_rolling: the awaited host execution returned;
\* batch_results[host_id] = host_result
RollingHostReturn ==
    /\ pc = "executing"
    /\ epc = "rolling_hosts"
    /\ cur # NoHost
    /\ HostReturned(hst[cur])
    /\ batch_results' = DictSet(batch_results, cur, hst[cur].res)
    /\ bpos' = bpos + 1
    /\ cur' = NoHost
    /\ UNCHANGED <<timed_out, sshVars>>
    /\ UNCHANGED <<scr, sm, db>>
    /\ UNCHANGED <<inv, ft, px>>
    /\ UNCHANGED <<cfg, pc, target_hosts, epc, i, batch, batches, sleeps, pi, sem, hst,
                   results, remoteLog, taskExecutions, run_result, report, calc>>

\* _execute_rolling: results.update(batch_results), then asyncio.sleep(batch_delay)
\* unless this was the last batch
RollingBatchEnd ==
    /\ pc = "executing"
    /\ epc = "rolling_hosts"
    /\ cur = NoHost
    /\ bpos > Len(batch)
    /\ results' = DictUpdate(results, batch_results)
    /\ LET batch_size == EffectiveBatchSize(cfg) IN
       /\ i' = NextIndex(i, batch_size, batch_results)
       /\ IF i + batch_size < Len(target_hosts)
          THEN /\ epc' = "rolling_sleep"
               /\ sleeps' = Append(sleeps, EffectiveBatchDelay(cfg))
          ELSE /\ epc' = "rolling_loop"
               /\ UNCHANGED sleeps
    /\ UNCHANGED <<timed_out, sshVars>>
    /\ UNCHANGED <<scr, sm, db>>
    /\ UNCHANGED <<inv, ft, px>>
    /\ UNCHANGED <<cfg, pc, target_hosts, batch, bpos, cur, batch_results, batches, pi,
                   sem, hst, remoteLog, taskExecutions, run_result, report, calc>>

\* _execute_rolling: asyncio.sleep(batch_delay) is over
RollingSleepDone ==
    /\ pc = "executing"
    /\ epc = "rolling_sleep"
    /\ epc' = "rolling_loop"
    /\ UNCHANGED <<timed_out, sshVars>>
    /\ UNCHANGED <<scr, sm, db>>
    /\ UNCHANGED <<inv, ft, px>>
    /\ UNCHANGED <<cfg, pc, target_hosts, i, batch, bpos, cur, batch_results, batches,
                   sleeps, pi, sem, hst, results, remoteLog, taskExecutions, run_result,
                   report, calc>>

\* _execute_parallel: the event loop starts a created task (in creation order)
\* while the collecting loop is suspended
ParallelHostBegin(id) ==
    /\ pc = "executing"
    /\ epc = "parallel_wait"
    /\ hst[id].st = "scheduled"
    /\ \E k \in 1..Len(target_hosts) :
          /\ Id(target_hosts[k]) = id
          /\ \A j \in 1..(k - 1) : hst[Id(target_hosts[j])].st # "scheduled"
    /\ hst' = [hst EXCEPT ![id] = HostBegin(cfg.tasks, 0)]
    /\ UNCHANGED <<timed_out, sshVars>>
    /\ UNCHANGED <<scr, sm, db>>
    /\ UNCHANGED <<inv, ft, px>>
    /\ UNCHANGED <<cfg, pc, target_hosts, epc, i, batch, bpos, cur, batch_results, batches,
                   sleeps, pi, sem, results, remoteLog, taskExecutions, run_result,
                   report, calc>>

\* the hosts the collecting loop passes without suspending, from position k on:
\* those whose task is already done
RECURSIVE CollectFrom(_, _)
CollectFrom(k, res) ==
    IF k > Len(target_hosts) \/ ~HostReturned(hst[Id(target_hosts[k])])
    THEN [next |-> k, results |-> res]
    ELSE CollectFrom(k + 1, DictSet(res, Id(target_hosts[k]), hst[Id(target_hosts[k])].res))

\* _execute_parallel: the awaited task is done; "async with semaphore: return
\* await task" yields its result, results[host_id] = result, and the loop goes
\* on to the next host, acquiring the semaphore again
ParallelCollect ==
    /\ pc = "executing"
    /\ epc = "parallel_wait"
    /\ \A x \in Addresses : hst[x].st # "scheduled"
    /\ HostReturned(hst[Id(target_hosts[pi])])
    /\ LET c == CollectFrom(pi, results) IN
       /\ results' = c.results
       /\ pi' = c.next
       /\ IF c.next > Len(target_hosts)
          THEN /\ pc' = NextPhase("executing", FALSE)
               /\ epc' = "finished"
               /\ sem' = sem + 1
          ELSE UNCHANGED <<pc, epc, sem>>
    /\ UNCHANGED <<timed_out, sshVars>>
    /\ UNCHANGED <<scr, sm, db>>
    /\ UNCHANGED <<inv, ft, px>>
    /\ UNCHANGED <<cfg, target_hosts, i, batch, bpos, cur, batch_results, batches,
                   sleeps, hst, remoteLog, taskExecutions, run_result, report, calc>>

\* no RunResult created yet
NoRunResult ==
    [status |-> "none", total_hosts |-> 0, successful_hosts |-> 0, failed_hosts |-> 0,
     skipped_hosts |-> 0, errors |-> {}, returned |-> FALSE]

\* run_playbook: _calculate_run_status and the RunResult, stored in run_results
Aggregate ==
    /\ pc = "aggregating"
    /\ run_result' =
          [status |-> _calculate_run_status(results),
           total_hosts |-> Len(target_hosts),
           successful_hosts |-> CountStatus(results, "success"),
           failed_hosts |-> CountStatus(results, "failed"),
           skipped_hosts |-> CountStatus(results, "skipped"),
           errors |-> {results[k].error : k \in {x \in DOMAIN results : results[x].error # NoError}},
           returned |-> FALSE]
    /\ pc' = NextPhase("aggregating", FALSE)
    /\ UNCHANGED <<timed_out, sshVars>>
    /\ UNCHANGED <<scr, sm, db>>
    /\ UNCHANGED <<inv, ft, px>>
    /\ UNCHANGED <<cfg, target_hosts, epc, i, batch, bpos, cur, batch_results, batches,
                   sleeps, pi, sem, hst, results, remoteLog, taskExecutions, report, calc>>

\* _generate_run_report: whether building the report raises. For every host
\* with recorded tasks the report loop calls task.get('status') on each task
\* result, which is no attribute of a TaskResult
ReportRaises(res) ==
    \E id \in DOMAIN res : res[id].tasks # <<>> /\ ~HasGet(TaskResultKind)

\* run_playbook: _generate_run_report builds and writes the report file (the
\* reports directory is writable), then the RunResult is returned
GenerateRunReport ==
    /\ pc = "reporting"
    /\ pc' = NextPhase("reporting", ReportRaises(results))
    /\ IF ReportRaises(results)
       THEN UNCHANGED <<report, run_result>>
       ELSE /\ report' = "written"
            /\ run_result' = [run_result EXCEPT !.returned = TRUE]
    /\ UNCHANGED <<timed_out, sshVars>>
    /\ UNCHANGED <<scr, sm, db>>
    /\ UNCHANGED <<inv, ft, px>>
    /\ UNCHANGED <<cfg, target_hosts, epc, i, batch, bpos, cur, batch_results, batches,
                   sleeps, pi, sem, hst, results, remoteLog, taskExecutions, calc>>

\* config.timeout seconds have passed since the run started; no statement of
\* the orchestrator, the CLI or the API reads RunConfig.timeout
RunTimeoutElapses ==
    /\ pc \in {"loading", "resolving", "executing", "aggregating", "reporting"}
    /\ ~timed_out
    /\ timed_out' = TRUE
    /\ UNCHANGED sshVars
    /\ UNCHANGED <<scr, sm, db>>
    /\ UNCHANGED <<inv, ft, px>>
    /\ UNCHANGED <<cfg, pc, target_hosts, epc, i, batch, bpos, cur, batch_results, batches,
                   sleeps, pi, sem, hst, results, remoteLog, taskExecutions, run_result,
                   report, calc>>

\* a direct call of _calculate_run_status on a map of host results
CalculateRunStatus ==
    /\ pc = "calc"
    /\ calc' = [calc EXCEPT !.out = _calculate_run_status(calc.in)]
    /\ pc' = "calc_done"
    /\ UNCHANGED <<timed_out, sshVars>>
    /\ UNCHANGED <<scr, sm, db>>
    /\ UNCHANGED <<inv, ft, px>>
    /\ UNCHANGED <<cfg, target_hosts, epc, i, batch, bpos, cur, batch_results, batches,
                   sleeps, pi, sem, hst, results, remoteLog, taskExecutions, run_result,
                   report>>

----------------------------------------------------------------------------
(* SSHExecutor: get_connection, execute_command, close_connection.         *)
(* Callers are coroutines sharing one SSHExecutor; a call is suspended     *)
(* while asyncssh.connect or connection.run is awaited.                    *)

Callers == 1..MaxCallers

\* host ids the callers address
SSHHostIds == {"a1", "a2"}

SSHResult(exit_code, stdout, stderr) ==
    [exit_code |-> exit_code, stdout |-> stdout, stderr |-> stderr]

NoSSHResult == SSHResult(-1, "", "")

\* a caller that is not inside execute_command
IdleCall ==
    [pc |-> "idle", host |-> NoHost, conn |-> 0, cause |-> "none", captured |-> "",
     result |-> NoSSHResult]

\* how the awaited asyncssh.connect can end
ConnectOutcomes ==
    {"connected", "auth_failure", "unreachable", "protocol_error", "connect_timeout"}

\* the exception asyncssh.connect raises; connect_timeout expires as
\* asyncio.TimeoutError
ConnectException(outcome) ==
    CASE outcome = "auth_failure"    -> [class |-> "PermissionDenied", text |-> "Permission denied"]
      [] outcome = "unreachable"     -> [class |-> "OSError", text |-> "Connection refused"]
      [] outcome = "protocol_error"  -> [class |-> "ProtocolError", text |-> "Protocol error"]
      [] outcome = "connect_timeout" -> [class |-> "TimeoutError", text |-> ""]

\* raise ValueError(f"No private key file specified for host {host_id}")
NoPrivateKey == [class |-> "ValueError", text |-> "No private key file specified"]

\* how the awaited connection.run can end: the command exited (exit status,
\* stdout, stderr), the timeout expired (stdout: the output captured before
\* the deadline), or the connection was lost (stderr: the exception text)
RunOutcomes ==
    { [kind |-> "exited", code |-> 0, stdout |-> "out", stderr |-> ""],
      [kind |-> "exited", code |-> 1, stdout |-> "", stderr |-> "Permission denied"],
      [kind |-> "exited", code |-> 1, stdout |-> "out", stderr |-> "boom"],
      [kind |-> "timeout", code |-> -1, stdout |-> "", stderr |-> ""],
      [kind |-> "timeout", code |-> -1, stdout |-> "out", stderr |-> ""],
      [kind |-> "connection_lost", code |-> -1, stdout |-> "", stderr |-> "Connection lost"] }

\* except clauses that let everything but timeouts and OS errors through
ExceptClausesNarrow(exc) ==
    IF exc.class = "TimeoutError"
    THEN [raised |-> FALSE,
          result |-> SSHResult(TimeoutExitCode, "", "Command timed out")]
    ELSE IF exc.class = "OSError"
    THEN [raised |-> FALSE, result |-> SSHResult(FailureExitCode, "", exc.text)]
    ELSE [raised |-> TRUE, result |-> NoSSHResult]

\* the except clauses of execute_command: asyncio.TimeoutError, then Exception
ExceptClauses(exc) ==
    IF exc.class = "TimeoutError"
    THEN [raised |-> FALSE,
          result |-> SSHResult(TimeoutExitCode, "", "Command timed out")]
    ELSE [raised |-> FALSE, result |-> SSHResult(FailureExitCode, "", exc.text)]

\* a call that left execute_command: what is left of it is what the caller
\* got, the cause and the output captured by then
Left(o, how, cause, result) ==
    [IdleCall EXCEPT !.pc = how, !.cause = cause, !.captured = o.captured,
                     !.result = result]

\* the call leaves execute_command through its except clauses
Excepted(o, cause, exc) ==
    LET h == ExceptClauses(exc) IN
    Left(o, IF h.raised THEN "raised" ELSE "returned", cause, h.result)

\* execute_command up to its first suspension: get_connection finds the
\* cached connection and connection.run is awaited, or raises for a missing
\* key, or awaits asyncssh.connect. A host that is no mapping raises
\* AttributeError in get_connection and again in the except clause's log line
ExecuteCommand(p, host_id, kind, has_key) ==
    /\ pc = "ssh"
    /\ op[p].pc = "idle"
    /\ LET o == [IdleCall EXCEPT !.host = host_id] IN
       op' = [op EXCEPT ![p] =
                IF ~HasGet(kind)
                THEN Left(o, "raised", "AttributeError", NoSSHResult)
                ELSE IF connections[host_id] # 0
                THEN [o EXCEPT !.pc = "running", !.conn = connections[host_id]]
                ELSE IF ~has_key
                THEN Excepted(o, "missing_key", NoPrivateKey)
                ELSE [o EXCEPT !.pc = "connecting"]]
    /\ UNCHANGED <<connections, established, timed_out>>
    /\ UNCHANGED <<scr, sm, db>>
    /\ UNCHANGED <<inv, ft, px>>
    /\ UNCHANGED <<cfg, pc, target_hosts, epc, i, batch, bpos, cur, batch_results, batches,
                   sleeps, pi, sem, hst, results, remoteLog, taskExecutions, run_result,
                   report, calc>>

\* get_connection: the awaited asyncssh.connect ends; a new connection is
\* stored in self.connections and connection.run is awaited
ConnectReturn(p, outcome) ==
    /\ pc = "ssh"
    /\ op[p].pc = "connecting"
    /\ LET host_id == op[p].host IN
       IF outcome = "connected"
       THEN /\ established' = [established EXCEPT ![host_id] = @ + 1]
            /\ connections' = [connections EXCEPT ![host_id] = established'[host_id]]
            /\ op' = [op EXCEPT ![p].pc = "running", ![p].conn = established'[host_id]]
       ELSE /\ op' = [op EXCEPT ![p] = Excepted(op[p], outcome, ConnectException(outcome))]
            /\ UNCHANGED <<connections, established>>
    /\ UNCHANGED timed_out
    /\ UNCHANGED <<scr, sm, db>>
    /\ UNCHANGED <<inv, ft, px>>
    /\ UNCHANGED <<cfg, pc, target_hosts, epc, i, batch, bpos, cur, batch_results, batches,
                   sleeps, pi, sem, hst, results, remoteLog, taskExecutions, run_result,
                   report, calc>>

\* execute_command: the awaited connection.run ends
RunReturn(p, r) ==
    /\ pc = "ssh"
    /\ op[p].pc = "running"
    /\ op' = [op EXCEPT ![p] =
                CASE r.kind = "exited" ->
                       Left(op[p], "returned", "exited",
                            SSHResult(r.code, r.stdout, r.stderr))
                  [] r.kind = "timeout" ->
                       Excepted([op[p] EXCEPT !.captured = r.stdout], "command_timeout",
                                [class |-> "TimeoutError", text |-> ""])
                  [] OTHER ->
                       Excepted(op[p], "connection_lost",
                                [class |-> "ConnectionLost", text |-> r.stderr])]
    /\ UNCHANGED <<connections, established, timed_out>>
    /\ UNCHANGED <<scr, sm, db>>
    /\ UNCHANGED <<inv, ft, px>>
    /\ UNCHANGED <<cfg, pc, target_hosts, epc, i, batch, bpos, cur, batch_results, batches,
                   sleeps, pi, sem, hst, results, remoteLog, taskExecutions, run_result,
                   report, calc>>

\* the caller took the result (or the exception) and is free for its next call
CallerContinues(p) ==
    /\ pc = "ssh"
    /\ op[p].pc \in {"returned", "raised"}
    /\ op' = [op EXCEPT ![p] = IdleCall]
    /\ UNCHANGED <<connections, established, timed_out>>
    /\ UNCHANGED <<scr, sm, db>>
    /\ UNCHANGED <<inv, ft, px>>
    /\ UNCHANGED <<cfg, pc, target_hosts, epc, i, batch, bpos, cur, batch_results, batches,
                   sleeps, pi, sem, hst, results, remoteLog, taskExecutions, run_result,
                   report, calc>>

\* close_connection: the cached connection of the host is closed and its
\* entry deleted
close_connection(host_id) ==
    /\ pc = "ssh"
    /\ connections[host_id] # 0
    /\ connections' = [connections EXCEPT ![host_id] = 0]
    /\ established' = [established EXCEPT ![host_id] = 0]
    /\ UNCHANGED <<op, timed_out>>
    /\ UNCHANGED <<scr, sm, db>>
    /\ UNCHANGED <<inv, ft, px>>
    /\ UNCHANGED <<cfg, pc, target_hosts, epc, i, batch, bpos, cur, batch_results, batches,
                   sleeps, pi, sem, hst, results, remoteLog, taskExecutions, run_result,
                   report, calc>>

----------------------------------------------------------------------------
(* Running a script on a host: SSHExecutor.execute_script and the 'script' *)
(* task handler TaskRunner._execute_script. Each awaited copy_file or      *)
(* execute_command is a suspension; one action is its return.              *)

ScriptVariants == {"execute_script", "_execute_script"}

\* exit codes an execute_command result carries
ScriptExitCodes == {0, FailureExitCode, TimeoutExitCode}

\* no script call in progress
NoScript ==
    [variant |-> "none", kind |-> "dict", pc |-> "idle", staged |-> FALSE,
     issued |-> <<>>, codes |-> <<>>, after |-> "none", exit_code |-> -1]

\* a script call that returns a failed script's result without the removal
AfterRunSkipCleanup(variant, exit_code) ==
    IF variant = "execute_script"
    THEN IF exit_code # 0 THEN [pc |-> "returned", after |-> "none"]
         ELSE [pc |-> "rm", after |-> "returned"]
    ELSE IF Subscriptable(SSHResultKind)
         THEN [pc |-> "rm", after |-> "returned"]
         ELSE [pc |-> "rm", after |-> "raised"]

\* what follows the run of the script. execute_script goes on to the removal
\* and then returns the result; _execute_script builds its return value from
\* result['exit_code'] inside try, and its finally clause issues the removal
\* before the return or the TypeError leaves the handler
AfterRun(variant, exit_code) ==
    IF variant = "execute_script"
    THEN [pc |-> "rm", after |-> "returned"]
    ELSE IF Subscriptable(SSHResultKind)
         THEN [pc |-> "rm", after |-> "returned"]
         ELSE [pc |-> "rm", after |-> "raised"]

\* the remote commands issued so far, with the one now awaited
Issue(c, command) == Append(c.issued, command)

\* the exit codes of the commands that returned a result; a host that is no
\* mapping makes execute_command raise instead
Returned(c, exit_code) == IF HasGet(c.kind) THEN Append(c.codes, exit_code) ELSE c.codes

\* the script call starts: the script is copied to the host (copy_file awaited)
ScriptCall(variant, kind) ==
    /\ pc = "script"
    /\ scr.pc = "idle"
    /\ scr' = [NoScript EXCEPT !.variant = variant, !.kind = kind, !.pc = "copy"]
    /\ UNCHANGED <<sm, db>>
    /\ UNCHANGED coreVars
    /\ UNCHANGED <<inv, ft, px>>

\* copy_file returns True or False (False also for a host that is no mapping:
\* get_connection raises inside copy_file's try). execute_script returns a
\* failure result when the copy failed; _execute_script does not look at the
\* value. The next step is the awaited chmod
CopyReturn(ok) ==
    /\ pc = "script"
    /\ scr.pc = "copy"
    /\ ok => HasGet(scr.kind)
    /\ scr' = IF ~ok /\ scr.variant = "execute_script"
              THEN [scr EXCEPT !.pc = "returned", !.exit_code = FailureExitCode]
              ELSE [scr EXCEPT !.pc = "chmod", !.staged = ok,
                               !.issued = Issue(scr, "chmod")]
    /\ UNCHANGED <<sm, db>>
    /\ UNCHANGED coreVars
    /\ UNCHANGED <<inv, ft, px>>

\* execute_command(chmod +x) returns a result, which neither caller reads, or
\* raises AttributeError for a host that is no mapping; then the script is run
\* (try body) or the finally clause issues the removal
ChmodReturn(exit_code) ==
    /\ pc = "script"
    /\ scr.pc = "chmod"
    /\ scr' = IF HasGet(scr.kind)
              THEN [scr EXCEPT !.pc = "run", !.issued = Issue(scr, "run"),
                               !.codes = Returned(scr, exit_code)]
              ELSE [scr EXCEPT !.pc = "rm", !.after = "raised",
                               !.issued = Issue(scr, "rm")]
    /\ UNCHANGED <<sm, db>>
    /\ UNCHANGED coreVars
    /\ UNCHANGED <<inv, ft, px>>

\* execute_command(remote_script) returns its result: exit status of the
\* script, 124 for a timeout, 1 for a transport failure
ScriptRunReturn(exit_code) ==
    /\ pc = "script"
    /\ scr.pc = "run"
    /\ LET n == AfterRun(scr.variant, exit_code) IN
       scr' = [scr EXCEPT !.pc = n.pc, !.after = n.after, !.exit_code = exit_code,
                          !.codes = Returned(scr, exit_code),
                          !.issued = IF n.pc = "rm" THEN Issue(scr, "rm") ELSE @]
    /\ UNCHANGED <<sm, db>>
    /\ UNCHANGED coreVars
    /\ UNCHANGED <<inv, ft, px>>

\* execute_command(rm -f) returns, or raises for a host that is no mapping;
\* the script call returns its result or lets the pending exception out
RmReturn(exit_code) ==
    /\ pc = "script"
    /\ scr.pc = "rm"
    /\ scr' = [scr EXCEPT !.pc = IF HasGet(scr.kind) THEN scr.after ELSE "raised",
                          !.after = "none", !.codes = Returned(scr, exit_code)]
    /\ UNCHANGED <<sm, db>>
    /\ UNCHANGED coreVars
    /\ UNCHANGED <<inv, ft, px>>

\* the caller took the result or the exception
ScriptDone ==
    /\ pc = "script"
    /\ scr.pc \in {"returned", "raised"}
    /\ scr' = NoScript
    /\ UNCHANGED <<sm, db>>
    /\ UNCHANGED coreVars
    /\ UNCHANGED <<inv, ft, px>>

----------------------------------------------------------------------------
(* Secrets: SecretsManager over the environment, file and Vault backends *)

None == "None"

\* the keys of self.backends, and the backend names callers pass
SecretBackends == {"env", "file", "vault"}
BackendNames == SecretBackends \cup {"ldap"}

SecretKeys == {"k1", "k2"}
SecretValues == {"s1"}

\* SecretsManager.__init__ and _load_config: self.backends['vault'] stays None
\* unless the configuration enables Vault; no secret is stored yet.
\* seen: the outcomes get_secret has given, by the case they were given in
SecretsManager(vault_enabled) ==
    [vault_enabled |-> vault_enabled,
     store |-> [b \in SecretBackends |-> [key \in SecretKeys |-> None]],
     seen |-> {}]

\* backend name not in self.backends, or self.backends[name] is None
NoBackend(s, backend_name) ==
    \/ backend_name \notin SecretBackends
    \/ backend_name = "vault" /\ ~s.vault_enabled

\* SecretsManager.get_secret: None for an unknown backend, None for a backend
\* that is not configured, None when the backend fails (the Vault backend
\* returns None from its own except clause, an unreadable secrets file is
\* loaded as {}, any other exception is caught by the manager), else the
\* backend's value, which is None for a key it does not hold
get_secret(s, key, backend_name, fails) ==
    IF backend_name \notin SecretBackends THEN None
    ELSE IF backend_name = "vault" /\ ~s.vault_enabled THEN None
    ELSE IF fails THEN None
    ELSE s.store[backend_name][key]

\* the case a get_secret call falls in
SecretCase(s, key, backend_name, fails) ==
    IF NoBackend(s, backend_name) \/ fails THEN "unavailable"
    ELSE IF s.store[backend_name][key] = None THEN "missing"
    ELSE "found"

\* the environment cannot fail; the file and Vault backends can
MayFail(backend_name, fails) == fails => backend_name \in {"file", "vault"}

\* await secrets.get_secret(key, backend)
GetSecret(key, backend_name, fails) ==
    /\ pc = "secrets"
    /\ MayFail(backend_name, fails)
    /\ sm' = [sm EXCEPT !.seen = @ \cup
                 {[case |-> SecretCase(sm, key, backend_name, fails),
                   outcome |-> get_secret(sm, key, backend_name, fails)]}]
    /\ UNCHANGED <<scr, db>>
    /\ UNCHANGED coreVars
    /\ UNCHANGED <<inv, ft, px>>

\* await secrets.set_secret(key, value, backend): the environment and Vault
\* store the value unless the backend fails; the file backend has put the
\* value in self._secrets before the save fails
SetSecret(key, value, backend_name, fails) ==
    /\ pc = "secrets"
    /\ MayFail(backend_name, fails)
    /\ sm' = IF NoBackend(sm, backend_name) \/ (fails /\ backend_name = "vault")
             THEN sm
             ELSE [sm EXCEPT !.store[backend_name][key] = value]
    /\ UNCHANGED <<scr, db>>
    /\ UNCHANGED coreVars
    /\ UNCHANGED <<inv, ft, px>>

\* await secrets.delete_secret(key, backend)
DeleteSecret(key, backend_name, fails) ==
    /\ pc = "secrets"
    /\ MayFail(backend_name, fails)
    /\ sm' = IF NoBackend(sm, backend_name) \/ (fails /\ backend_name = "vault")
             THEN sm
             ELSE [sm EXCEPT !.store[backend_name][key] = None]
    /\ UNCHANGED <<scr, db>>
    /\ UNCHANGED coreVars
    /\ UNCHANGED <<inv, ft, px>>

----------------------------------------------------------------------------
(* Audit store: AuditLogger over the audit_events and task_executions tables *)

\* bounds of the audit store explored
MaxClock == 3          \* the clock runs from 0 to MaxClock ticks
MaxRecords == 2        \* records logged in one behaviour
MaxQueryLimit == 2     \* largest LIMIT a query passes

\* days * 24 * 60 * 60, in clock ticks
TicksPerDay == 2

\* a filter or a time that is not given (None)
NoTime == -1

Min(a, b) == IF a < b THEN a ELSE b

\* datetime.isoformat(): the seconds, and the microseconds unless they are 0.
\* A clock tick is half a second: even ticks fall on a whole second
isoformat(t) == IF t % 2 = 0 THEN <<t \div 2>> ELSE <<t \div 2, 5>>

\* datetime.fromisoformat()
fromisoformat(text) == IF Len(text) = 1 THEN 2 * text[1] ELSE 2 * text[1] + 1

\* SQLite's comparison of two TEXT values (memcmp): the first differing
\* position decides, a proper prefix is smaller
TextLess(a, b) ==
    \/ \E k \in 1..Min(Len(a), Len(b)) :
          a[k] < b[k] /\ \A j \in 1..(k - 1) : a[j] = b[j]
    \/ Len(a) < Len(b) /\ \A j \in 1..Len(a) : a[j] = b[j]

\* Python values of a details / facts dict: str, list and tuple
PyStr(str) == [t |-> "str", s |-> str, items |-> <<>>]
PyList(items) == [t |-> "list", s |-> "", items |-> items]

\* json.dumps of a dict with str keys: a str becomes a JSON string, a list or
\* a tuple a JSON array
json_dumps(d) ==
    [k \in DOMAIN d |->
        [j |-> IF d[k].t = "str" THEN "string" ELSE "array",
         s |-> d[k].s, items |-> d[k].items]]

\* json.loads: a JSON string becomes a str, a JSON array a list
json_loads(text) ==
    [k \in DOMAIN text |->
        [t |-> IF text[k].j = "string" THEN "str" ELSE "list",
         s |-> text[k].s, items |-> text[k].items]]

\* 'if user:' and the like: None and '' do not add a condition to the query
Truthy(filter) == filter # None /\ filter # ""

\* the store after _init_database, and no call made yet.
\* events, tasks: the rows of the two tables in insertion order;
\* logged_events, logged_tasks: the AuditEvent and TaskExecution objects the
\* logging calls built, less those whose time has fallen behind a cleanup's cutoff;
\* op: the last call and what it returned
NoQuery ==
    [start_time |-> NoTime, end_time |-> NoTime, event_type |-> None, user |-> None,
     host |-> None, run_id |-> None, status |-> None, limit |-> 0]

NoCall == [name |-> "none", days |-> 0, q |-> NoQuery, result |-> <<>>]

EmptyAuditStore ==
    [events |-> <<>>, tasks |-> <<>>, logged_events |-> {}, logged_tasks |-> {},
     now |-> 0, next_id |-> 1, op |-> NoCall]

\* AuditEvent(event_id=..., timestamp=datetime.now(), ...); the columns action,
\* status, task_id, duration and error are stored and read back as they are
\* and are left out
AuditEvent(event_id, timestamp, in) ==
    [event_id |-> event_id, timestamp |-> timestamp, event_type |-> in.event_type,
     user |-> in.user, host |-> in.host, details |-> in.details, run_id |-> in.run_id]

\* the VALUES tuple of log_event's INSERT
EventRow(event) ==
    [event EXCEPT !.timestamp = isoformat(event.timestamp),
                  !.details = json_dumps(event.details)]

\* the AuditEvent get_events builds from a row
EventOfRow(row) ==
    [row EXCEPT !.timestamp = fromisoformat(row.timestamp),
                !.details = json_loads(row.details)]

\* TaskExecution(task_id=..., facts=task_result.facts or {}); task_name,
\* task_type, end_time, duration, output and error are left out
TaskExecution(task_id, in) ==
    [task_id |-> task_id, run_id |-> in.run_id, host |-> in.host,
     start_time |-> in.start_time, status |-> in.status, changed |-> in.changed,
     facts |-> in.facts]

\* the VALUES tuple of log_task_execution's INSERT; SQLite stores a bool as 0 or 1
TaskRow(execution) ==
    [execution EXCEPT !.start_time = isoformat(execution.start_time),
                      !.changed = IF execution.changed THEN 1 ELSE 0,
                      !.facts = json_dumps(execution.facts)]

\* the TaskExecution get_task_executions builds from a row
TaskOfRow(row) ==
    [row EXCEPT !.start_time = fromisoformat(row.start_time),
                !.changed = (row.changed # 0),
                !.facts = json_loads(row.facts)]

\* a start filter that leaves out the records of the start time itself
After(text, bound) == TextLess(bound, text)

\* timestamp >= ?
AtOrAfter(text, bound) == ~TextLess(text, bound)

\* timestamp <= ?
AtOrBefore(text, bound) == ~TextLess(bound, text)

\* the WHERE clause get_events builds
EventMatches(row, q) ==
    /\ q.start_time # NoTime => AtOrAfter(row.timestamp, isoformat(q.start_time))
    /\ q.end_time # NoTime => AtOrBefore(row.timestamp, isoformat(q.end_time))
    /\ Truthy(q.event_type) => row.event_type = q.event_type
    /\ Truthy(q.user) => row.user = q.user
    /\ Truthy(q.host) => row.host = q.host
    /\ Truthy(q.run_id) => row.run_id = q.run_id

\* the WHERE clause get_task_executions builds
TaskMatches(row, q) ==
    /\ Truthy(q.run_id) => row.run_id = q.run_id
    /\ Truthy(q.host) => row.host = q.host
    /\ Truthy(q.status) => row.status = q.status

\* ORDER BY <time column> DESC: the orders SQLite may give the rows M, whose
\* time texts are keys; rows of equal time come in any order
Descending(M, keys) ==
    {p \in [1..Cardinality(M) -> M] :
        /\ \A a, b \in 1..Cardinality(M) : a # b => p[a] # p[b]
        /\ \A a, b \in 1..Cardinality(M) : a < b => ~TextLess(keys[p[a]], keys[p[b]])}

\* a query without LIMIT
ApplyLimitNone(p, limit) == p

\* LIMIT ?
ApplyLimit(p, limit) == SubSeq(p, 1, Min(limit, Len(p)))

\* the cutoff itself counts as old
NotNewerThan(text, cutoff) == ~TextLess(cutoff, text)

\* timestamp < ?
OlderThan(text, cutoff) == TextLess(text, cutoff)

\* the methods have no await between opening the database and their return:
\* a call runs to its end before the next one starts
Idle == db.op.name = "none"

\* the caller has taken what the call returned or raised
CallReturned ==
    /\ pc = "audit"
    /\ ~Idle
    /\ db' = [db EXCEPT !.op = NoCall]
    /\ UNCHANGED <<scr, sm>>
    /\ UNCHANGED coreVars
    /\ UNCHANGED <<inv, ft, px>>

\* datetime.now() moves on
Tick ==
    /\ pc = "audit"
    /\ Idle
    /\ db.now < MaxClock
    /\ db' = [db EXCEPT !.now = @ + 1]
    /\ UNCHANGED <<scr, sm>>
    /\ UNCHANGED coreVars
    /\ UNCHANGED <<inv, ft, px>>

\* await audit.log_event(...): the row is inserted and committed, or the
\* INSERT fails and the exception is raised to the caller
LogEvent(in, ok) ==
    /\ pc = "audit"
    /\ Idle
    /\ db.next_id <= MaxRecords
    /\ LET event == AuditEvent(db.next_id, db.now, in) IN
       db' = IF ok
             THEN [db EXCEPT !.events = Append(@, EventRow(event)),
                             !.logged_events = @ \cup {event},
                             !.next_id = @ + 1,
                             !.op = [NoCall EXCEPT !.name = "log_event"]]
             ELSE [db EXCEPT !.op = [NoCall EXCEPT !.name = "log_event raised"]]
    /\ UNCHANGED <<scr, sm>>
    /\ UNCHANGED coreVars
    /\ UNCHANGED <<inv, ft, px>>

\* await audit.log_task_execution(host, task_config, task_result, run_id);
\* the task started age ticks ago
LogTaskExecution(in, age, ok) ==
    /\ pc = "audit"
    /\ Idle
    /\ db.next_id <= MaxRecords
    /\ age <= db.now
    /\ LET execution == TaskExecution(db.next_id, [in EXCEPT !.start_time = db.now - age]) IN
       db' = IF ok
             THEN [db EXCEPT !.tasks = Append(@, TaskRow(execution)),
                             !.logged_tasks = @ \cup {execution},
                             !.next_id = @ + 1,
                             !.op = [NoCall EXCEPT !.name = "log_task_execution"]]
             ELSE [db EXCEPT !.op = [NoCall EXCEPT !.name = "log_task_execution raised"]]
    /\ UNCHANGED <<scr, sm>>
    /\ UNCHANGED coreVars
    /\ UNCHANGED <<inv, ft, px>>

\* await audit.get_events(start_time, end_time, event_type, user, host, run_id, limit)
GetEvents(q) ==
    /\ pc = "audit"
    /\ Idle
    /\ LET M == {n \in 1..Len(db.events) : EventMatches(db.events[n], q)}
           keys == [n \in 1..Len(db.events) |-> db.events[n].timestamp]
       IN \E p \in Descending(M, keys) :
            LET rows == ApplyLimit(p, q.limit) IN
            db' = [db EXCEPT !.op =
                      [name |-> "get_events", days |-> 0, q |-> q,
                       result |-> [n \in 1..Len(rows) |-> EventOfRow(db.events[rows[n]])]]]
    /\ UNCHANGED <<scr, sm>>
    /\ UNCHANGED coreVars
    /\ UNCHANGED <<inv, ft, px>>

\* await audit.get_task_executions(run_id, host, status, limit)
GetTaskExecutions(q) ==
    /\ pc = "audit"
    /\ Idle
    /\ LET M == {n \in 1..Len(db.tasks) : TaskMatches(db.tasks[n], q)}
           keys == [n \in 1..Len(db.tasks) |-> db.tasks[n].start_time]
       IN \E p \in Descending(M, keys) :
            LET rows == ApplyLimit(p, q.limit) IN
            db' = [db EXCEPT !.op =
                      [name |-> "get_task_executions", days |-> 0, q |-> q,
                       result |-> [n \in 1..Len(rows) |-> TaskOfRow(db.tasks[rows[n]])]]]
    /\ UNCHANGED <<scr, sm>>
    /\ UNCHANGED coreVars
    /\ UNCHANGED <<inv, ft, px>>

\* await audit.cleanup_old_events(days): both DELETE statements, one commit
CleanupOldEvents(days) ==
    /\ pc = "audit"
    /\ Idle
    /\ LET cutoff == db.now - days * TicksPerDay
           cutoff_iso == isoformat(cutoff)
           KeepEvent(row) == ~OlderThan(row.timestamp, cutoff_iso)
           KeepTask(row) == ~OlderThan(row.start_time, cutoff_iso)
       IN db' = [db EXCEPT
                    !.events = SelectSeq(@, KeepEvent),
                    !.tasks = SelectSeq(@, KeepTask),
                    !.logged_events = {e \in @ : ~(e.timestamp < cutoff)},
                    !.logged_tasks = {e \in @ : ~(e.start_time < cutoff)},
                    !.op = [NoCall EXCEPT !.name = "cleanup_old_events", !.days = days]]
    /\ UNCHANGED <<scr, sm>>
    /\ UNCHANGED coreVars
    /\ UNCHANGED <<inv, ft, px>>

----------------------------------------------------------------------------
(* Inputs *)

TargetHostChoices == {<<>>, <<"ghost", "web-02">>}
TargetGroupChoices == {<<>>, <<"web">>, <<"all">>}
Strategies == {"rolling", "parallel", "serial"}
----------------------------------------------------------------------------
(* Inventory objects: what load, add_host, remove_host, update_host,       *)
(* add_group, save and the lookups do to one Inventory                     *)

MaxInventoryCalls == 3      \* calls that change the Inventory, per behaviour
RecursionLimit == 4         \* sys.getrecursionlimit(), scaled to the nesting explored

\* a dict, which keeps insertion order: a sequence of [k, v]
Entry(k, v) == [k |-> k, v |-> v]
Keys(d) == {d[n].k : n \in 1..Len(d)}
Lookup(d, k) == d[CHOOSE n \in 1..Len(d) : d[n].k = k].v
Store(d, k, v) ==
    IF k \in Keys(d)
    THEN [n \in 1..Len(d) |-> IF d[n].k = k THEN Entry(k, v) ELSE d[n]]
    ELSE Append(d, Entry(k, v))
Values(d) == [n \in 1..Len(d) |-> d[n].v]

\* del d[k]
DeleteKey(d, k) ==
    LET Other(e) == e.k # k IN SelectSeq(d, Other)

\* the elements of a list
Elements(list) == {list[n] : n \in 1..Len(list)}

\* list.remove(x) on a list without its n-th element
RemoveAt(list, n) ==
    [m \in 1..(Len(list) - 1) |-> IF m < n THEN list[m] ELSE list[m + 1]]

\* the Host dataclass: name, ansible_host stands for the eleven attributes
\* that are passed through alike, role for an entry of Host.variables
Host(name, ansible_host, role) ==
    [name |-> name, ansible_host |-> ansible_host, role |-> role]

\* the Group dataclass; hosts and children hold references to objects
Group(name, hosts, children, variables) ==
    [name |-> name, hosts |-> hosts, children |-> children, variables |-> variables]

\* the mapping of a host in a document (None: the key is absent), and the
\* mapping of a group: its 'hosts', 'children' and 'vars' keys
HostData(ansible_host, role) == [ansible_host |-> ansible_host, role |-> role]
GroupData(hosts, children, group_vars) ==
    [hosts |-> hosts, children |-> children, vars |-> group_vars]

\* inventory documents (the mapping under 'all'): two sibling groups
FlatDoc ==
    GroupData(<<>>,
        << Entry("web", GroupData(<<Entry("web-01", HostData("a1", None))>>, <<>>, {})),
           Entry("db", GroupData(<<Entry("db-01", HostData("a2", "x"))>>, <<>>,
                                 {"env=prod"})) >>,
        {})

\* a host and variables placed directly in the root group
RootDoc ==
    GroupData(<<Entry("db-01", HostData("a2", None))>>,
        << Entry("web", GroupData(<<Entry("web-01", HostData(None, None))>>, <<>>, {})) >>,
        {"env=prod"})

\* a group nested in a group, and a host listed in both of them
NestedDoc ==
    GroupData(<<>>,
        << Entry("web",
               GroupData(<<Entry("web-01", HostData("a1", None))>>,
                   << Entry("app",
                          GroupData(<<Entry("web-01", HostData("a1", None)),
                                      Entry("db-01", HostData("a2", None))>>,
                                    <<>>, {})) >>,
                   {"env=prod"})) >>,
        {})

\* a group that lists a child group of its own name
SelfNestedDoc ==
    GroupData(<<>>,
        << Entry("web",
               GroupData(<<Entry("web-01", HostData("a1", None))>>,
                   << Entry("web", GroupData(<<>>, <<>>, {})) >>,
                   {})) >>,
        {})

\* documents in which every group name occurs once
ValidInventoryDocs == {FlatDoc, RootDoc, NestedDoc}
InventoryDocs == ValidInventoryDocs \cup {SelfNestedDoc}

\* Group objects a caller of add_group has built: blue and green list each
\* other as child, canary has no child
CallerGroups ==
    << Group("blue", <<>>, <<2>>, {}),
       Group("green", <<>>, <<1>>, {}),
       Group("canary", <<>>, <<>>, {}) >>

\* Host objects a caller of add_host passes
CallerHosts == { Host("web-01", "a3", None), Host("db-02", "a2", None) }

HostNames == {"web-01", "db-01", "db-02"}

\* the updates dicts passed to update_host
HostUpdates == { Entry("name", "db-01"), Entry("role", "y") }

\* the last call made on the Inventory and what it returned
\* (ok: it returned True, or returned at all; error: the exception it raised)
InventoryCall(name, arg, ok, hosts) ==
    [name |-> name, arg |-> arg, ok |-> ok, hosts |-> hosts,
     error |-> IF name \in {"get_group_hosts", "save"} /\ ~ok
               THEN "RecursionError" ELSE None]

NoInventoryCall == InventoryCall("none", None, TRUE, <<>>)

\* Inventory.__init__: no hosts, no groups; with it the objects that exist
\* (host_objs, group_objs), the inventory file, and the history of the calls
NewInventory ==
    [host_objs |-> <<>>, group_objs |-> CallerGroups,
     hosts |-> <<>>, groups |-> <<>>, all_hosts |-> <<>>,
     file |-> <<>>, doc |-> <<>>, history |-> <<>>, op |-> NoInventoryCall]

\* Inventory._parse_host: ansible_host defaults to the host's name
_parse_host(host_name, host_data) ==
    Host(host_name,
         IF host_data.ansible_host = None THEN host_name ELSE host_data.ansible_host,
         host_data.role)

\* _parse_group, the loop over the 'hosts' mapping: a new Host object for
\* every entry, appended to the group and stored under its name
RECURSIVE ParseHosts(_, _, _)
ParseHosts(s, group, hosts_data) ==
    IF hosts_data = <<>> THEN s
    ELSE LET e == Head(hosts_data)
             host == Len(s.host_objs) + 1
         IN ParseHosts([s EXCEPT !.host_objs = Append(@, _parse_host(e.k, e.v)),
                                 !.group_objs[group].hosts = Append(@, host),
                                 !.hosts = Store(@, e.k, host)],
                       group, Tail(hosts_data))

\* Inventory._parse_group: a new Group object, its hosts, its child groups
\* (each parsed, appended and stored under its name), its variables, and
\* the group stored under its own name
RECURSIVE _parse_group(_, _, _)
RECURSIVE ParseChildren(_, _, _)
ParseChildren(s, group, children_data) ==
    IF children_data = <<>> THEN s
    ELSE LET e == Head(children_data)
             r == _parse_group(s, e.k, e.v)
         IN ParseChildren([r.s EXCEPT !.group_objs[group].children = Append(@, r.group),
                                      !.groups = Store(@, e.k, r.group)],
                          group, Tail(children_data))

_parse_group(s, group_name, group_data) ==
    LET group == Len(s.group_objs) + 1
        s0 == [s EXCEPT !.group_objs = Append(@, Group(group_name, <<>>, <<>>, {}))]
        s1 == ParseHosts(s0, group, group_data.hosts)
        s2 == ParseChildren(s1, group, group_data.children)
    IN [s |-> [s2 EXCEPT !.group_objs[group].variables = group_data.vars,
                         !.groups = Store(@, group_name, group)],
        group |-> group]

\* Inventory._parse_inventory: the group 'all' is parsed into the dicts as
\* they are, then all_hosts = list(self.hosts.values())
_parse_inventory(s, inventory_data) ==
    LET s1 == _parse_group(s, "all", inventory_data).s
    IN [s1 EXCEPT !.all_hosts = Values(s1.hosts)]

\* Inventory.get_host: the Host object stored under the name, as a list of
\* zero or one reference
Inventory_get_host(s, host_name) ==
    IF host_name \in Keys(s.hosts) THEN <<Lookup(s.hosts, host_name)>> ELSE <<>>

\* Inventory.get_group_hosts with depth frames on the stack already:
\* list(group.hosts) extended by get_group_hosts(child_group.name) of every
\* child; raised when the interpreter's recursion limit is reached
RECURSIVE Inventory_get_group_hosts(_, _, _)
RECURSIVE ExtendWithChildren(_, _, _, _)
ExtendWithChildren(s, hosts, children, depth) ==
    IF children = <<>> THEN [raised |-> FALSE, hosts |-> hosts]
    ELSE LET r == Inventory_get_group_hosts(s, s.group_objs[Head(children)].name, depth)
         IN IF r.raised THEN r
            ELSE ExtendWithChildren(s, hosts \o r.hosts, Tail(children), depth)

Inventory_get_group_hosts(s, group_name, depth) ==
    IF depth >= RecursionLimit THEN [raised |-> TRUE, hosts |-> <<>>]
    ELSE IF group_name \notin Keys(s.groups) THEN [raised |-> FALSE, hosts |-> <<>>]
    ELSE LET group == s.group_objs[Lookup(s.groups, group_name)]
         IN ExtendWithChildren(s, group.hosts, group.children, depth + 1)

\* the 'hosts' mapping of a saved group: host.name -> the host's attributes
\* and variables
RECURSIVE HostsToYaml(_, _, _)
HostsToYaml(s, hosts, acc) ==
    IF hosts = <<>> THEN acc
    ELSE LET host == s.host_objs[Head(hosts)]
         IN HostsToYaml(s, Tail(hosts),
                        Store(acc, host.name, HostData(host.ansible_host, host.role)))

\* Inventory._group_to_yaml with depth frames on the stack already: hosts,
\* vars, and the children keyed by child_group.name
RECURSIVE _group_to_yaml(_, _, _)
RECURSIVE ChildrenToYaml(_, _, _, _)
ChildrenToYaml(s, children, acc, depth) ==
    IF children = <<>> THEN [raised |-> FALSE, data |-> acc]
    ELSE LET r == _group_to_yaml(s, Head(children), depth)
         IN IF r.raised THEN [raised |-> TRUE, data |-> <<>>]
            ELSE ChildrenToYaml(s, Tail(children),
                                Store(acc, s.group_objs[Head(children)].name, r.data),
                                depth)

_group_to_yaml(s, group, depth) ==
    IF depth >= RecursionLimit
    THEN [raised |-> TRUE, data |-> GroupData(<<>>, <<>>, {})]
    ELSE LET g == s.group_objs[group]
             c == ChildrenToYaml(s, g.children, <<>>, depth + 1)
         IN IF c.raised THEN [raised |-> TRUE, data |-> GroupData(<<>>, <<>>, {})]
            ELSE [raised |-> FALSE,
                  data |-> GroupData(HostsToYaml(s, g.hosts, <<>>), c.data, g.variables)]

\* Inventory._to_yaml_format: {'all': {'children': {}}}, and every entry of
\* self.groups but 'all' written as a child of all
RECURSIVE GroupsToYaml(_, _, _)
GroupsToYaml(s, entries, acc) ==
    IF entries = <<>> THEN [raised |-> FALSE, data |-> acc]
    ELSE LET e == Head(entries) IN
         IF e.k = "all" THEN GroupsToYaml(s, Tail(entries), acc)
         ELSE LET r == _group_to_yaml(s, e.v, 1)
              IN IF r.raised THEN [raised |-> TRUE, data |-> <<>>]
                 ELSE GroupsToYaml(s, Tail(entries), Store(acc, e.k, r.data))

_to_yaml_format(s) ==
    LET c == GroupsToYaml(s, s.groups, <<>>)
    IN [raised |-> c.raised, data |-> GroupData(<<>>, c.data, {})]

\* the Inventory after a call that changed it
Called(s, name, call) == [s EXCEPT !.history = Append(@, name), !.op = call]

InventoryIdle == pc = "inventory" /\ inv.op.name = "none"
MayChange == InventoryIdle /\ Len(inv.history) < MaxInventoryCalls

\* Inventory.load of the file save has written; a file that does not exist
\* is logged and nothing is parsed
LoadSaved ==
    /\ MayChange
    /\ IF inv.file = <<>>
       THEN inv' = Called(inv, "load", InventoryCall("load", None, TRUE, <<>>))
       ELSE inv' = [Called(_parse_inventory(inv, inv.file[1]), "load",
                           InventoryCall("load", None, TRUE, <<>>))
                       EXCEPT !.doc = inv.file]
    /\ UNCHANGED coreVars
    /\ UNCHANGED <<scr, sm, db, ft, px>>

\* Inventory.load of a file an operator wrote; the dicts are not cleared first
Load(inventory_data) ==
    /\ MayChange
    /\ inv' = [Called(_parse_inventory(inv, inventory_data), "load",
                      InventoryCall("load", None, TRUE, <<>>))
                  EXCEPT !.doc = <<inventory_data>>]
    /\ UNCHANGED coreVars
    /\ UNCHANGED <<scr, sm, db, ft, px>>

\* Inventory.add_host: self.hosts[host.name] = host; self.all_hosts.append(host)
AddHost(host) ==
    /\ MayChange
    /\ LET ref == Len(inv.host_objs) + 1 IN
       inv' = Called([inv EXCEPT !.host_objs = Append(@, host),
                                 !.hosts = Store(@, host.name, ref),
                                 !.all_hosts = Append(@, ref)],
                     "add_host", InventoryCall("add_host", host.name, TRUE, <<ref>>))
    /\ UNCHANGED coreVars
    /\ UNCHANGED <<scr, sm, db, ft, px>>

\* Inventory.remove_host for a name that is a key of self.hosts: del
\* self.hosts[host_name], then self.all_hosts.remove(host), which removes the
\* first element equal to the host and raises ValueError when there is none
remove_host(s, host_name) ==
    LET host == Lookup(s.hosts, host_name)
        equal == {n \in 1..Len(s.all_hosts) : s.host_objs[s.all_hosts[n]] = s.host_objs[host]}
        s1 == [s EXCEPT !.hosts = DeleteKey(@, host_name)]
    IN IF equal = {} THEN s1
       ELSE [s1 EXCEPT !.all_hosts = RemoveAt(@, CHOOSE n \in equal : \A m \in equal : n <= m)]

\* Inventory.remove_host: False for an unknown name and when the removal raised
RemoveHost(host_name) ==
    /\ MayChange
    /\ IF host_name \notin Keys(inv.hosts)
       THEN inv' = Called(inv, "remove_host",
                          InventoryCall("remove_host", host_name, FALSE, <<>>))
       ELSE LET s1 == remove_host(inv, host_name) IN
            inv' = Called(s1, "remove_host",
                          InventoryCall("remove_host", host_name,
                                        Len(s1.all_hosts) < Len(inv.all_hosts),
                                        <<Lookup(inv.hosts, host_name)>>))
    /\ UNCHANGED coreVars
    /\ UNCHANGED <<scr, sm, db, ft, px>>

\* Inventory.update_host: setattr for a key that is an attribute of Host
\* (name is one), host.variables[key] = value for any other key
UpdateHost(host_name, update) ==
    /\ MayChange
    /\ IF host_name \notin Keys(inv.hosts)
       THEN inv' = Called(inv, "update_host",
                          InventoryCall("update_host", host_name, FALSE, <<>>))
       ELSE LET host == Lookup(inv.hosts, host_name) IN
            inv' = Called([inv EXCEPT !.host_objs[host] =
                              IF update.k = "name" THEN [@ EXCEPT !.name = update.v]
                              ELSE [@ EXCEPT !.role = update.v]],
                          "update_host",
                          InventoryCall("update_host", host_name, TRUE, <<host>>))
    /\ UNCHANGED coreVars
    /\ UNCHANGED <<scr, sm, db, ft, px>>

\* Inventory.add_group: self.groups[group.name] = group
AddGroup(group) ==
    /\ MayChange
    /\ inv' = Called([inv EXCEPT !.groups = Store(@, inv.group_objs[group].name, group)],
                     "add_group",
                     InventoryCall("add_group", inv.group_objs[group].name, TRUE, <<>>))
    /\ UNCHANGED coreVars
    /\ UNCHANGED <<scr, sm, db, ft, px>>

\* Inventory.save: the file is written once _to_yaml_format has returned;
\* an exception is logged and raised again
Save ==
    /\ MayChange
    /\ LET r == _to_yaml_format(inv) IN
       inv' = Called([inv EXCEPT !.file = IF r.raised THEN @ ELSE <<r.data>>],
                     "save", InventoryCall("save", None, ~r.raised, <<>>))
    /\ UNCHANGED coreVars
    /\ UNCHANGED <<scr, sm, db, ft, px>>

\* a call of Inventory.get_group_hosts by a route, a command or the orchestrator
GetGroupHosts(group_name) ==
    /\ InventoryIdle
    /\ LET r == Inventory_get_group_hosts(inv, group_name, 0) IN
       inv' = [inv EXCEPT !.op = InventoryCall("get_group_hosts", group_name,
                                               ~r.raised, r.hosts)]
    /\ UNCHANGED coreVars
    /\ UNCHANGED <<scr, sm, db, ft, px>>

\* the caller has looked at what the call returned
InventoryCallReturned ==
    /\ pc = "inventory"
    /\ inv.op.name # "none"
    /\ inv' = [inv EXCEPT !.op = NoInventoryCall]
    /\ UNCHANGED coreVars
    /\ UNCHANGED <<scr, sm, db, ft, px>>

GroupNames == {"all", "web", "app", "blue", "ghost"}

----------------------------------------------------------------------------
(* The file task: TaskRunner.execute_task with the handler _execute_file   *)
(* on one host                                                             *)

MaxFileTasks == 2           \* file tasks applied to the host, per behaviour

FilePaths == {"/opt/app"}

\* the args of a file task (None: the key is absent)
FileArgs(path, state, directory, owner, group, mode) ==
    [path |-> path, state |-> state, directory |-> directory,
     owner |-> owner, group |-> group, mode |-> mode]

FileTaskArgs ==
    { FileArgs(p, "present", d, o[1], o[2], m) :
        p \in FilePaths, d \in BOOLEAN,
        o \in {<<None, None>>, <<"splunk", "splunk">>}, m \in {None, "0640"} }
    \cup { FileArgs(p, "absent", FALSE, None, None, None) : p \in FilePaths }

\* what the host holds at a path
FileEntry(kind, owner, group, mode) ==
    [kind |-> kind, owner |-> owner, group |-> group, mode |-> mode]

NoFile == FileEntry("absent", None, None, None)

\* the commands _execute_file awaits, in order: mkdir -p or echo > path,
\* then chown, chgrp and chmod for the keys given; rm -rf for state absent
FileCommands(args) ==
    IF args.state = "absent" THEN <<"rm">>
    ELSE <<IF args.directory THEN "mkdir" ELSE "echo">>
         \o (IF args.owner # None THEN <<"chown">> ELSE <<>>)
         \o (IF args.group # None THEN <<"chgrp">> ELSE <<>>)
         \o (IF args.mode # None THEN <<"chmod">> ELSE <<>>)

\* whether the command can exit 0 on the host
CanSucceed(cmd, entry) ==
    CASE cmd = "mkdir" -> entry.kind # "file"
      [] cmd = "echo"  -> entry.kind # "directory"
      [] cmd = "rm"    -> TRUE
      [] OTHER         -> entry.kind # "absent"

\* the path on the host after the command has exited 0
AfterCommand(cmd, args, entry) ==
    CASE cmd = "mkdir" -> IF entry.kind = "absent"
                          THEN FileEntry("directory", "root", "root", "0644") ELSE entry
      [] cmd = "echo"  -> IF entry.kind = "absent"
                          THEN FileEntry("file", "root", "root", "0644") ELSE entry
      [] cmd = "rm"    -> NoFile
      [] cmd = "chown" -> [entry EXCEPT !.owner = args.owner]
      [] cmd = "chgrp" -> [entry EXCEPT !.group = args.group]
      [] cmd = "chmod" -> [entry EXCEPT !.mode = args.mode]

\* TaskRunner._execute_file once its commands have returned: the dict it
\* builds from the first command's result by result['exit_code'], with
\* 'changed': True; or the exception the subscript raises
_execute_file(exit_code, before, args) ==
    IF Subscriptable(SSHResultKind)
    THEN [raised |-> FALSE,
          status |-> IF exit_code = 0 THEN "success" ELSE "failed",
          changed |-> TRUE]
    ELSE [raised |-> TRUE, status |-> "failed", changed |-> FALSE]

\* TaskRunner.execute_task from the handler's return on: status and changed
\* of the TaskResult; an exception of the handler or of the audit call gives
\* status 'failed' and changed False
FileTaskResult(exit_code, before, args) ==
    LET result == _execute_file(exit_code, before, args) IN
    IF result.raised \/ ~LogTaskExecutionBinds
    THEN [status |-> "failed", changed |-> FALSE]
    ELSE [status |-> result.status, changed |-> result.changed]

NoFileCall == [args |-> FileArgs(None, None, FALSE, None, None, None),
               left |-> <<>>, first |-> TRUE, exit_code |-> 0, before |-> NoFile]

\* the host's paths, the call in progress (the commands still to be awaited,
\* the first command's exit code, the path before the call), and the
\* TaskResults of the calls made
NoFileTasks ==
    [files |-> [p \in FilePaths |-> NoFile], call |-> NoFileCall, results |-> <<>>]

\* execute_task is called with a file task: _execute_file awaits its first command
FileTaskCall(args) ==
    /\ pc = "file"
    /\ ft.call = NoFileCall
    /\ Len(ft.results) < MaxFileTasks
    /\ ft' = [ft EXCEPT !.call = [args |-> args, left |-> FileCommands(args),
                                  first |-> TRUE, exit_code |-> 0,
                                  before |-> ft.files[args.path]]]
    /\ UNCHANGED coreVars
    /\ UNCHANGED <<scr, sm, db, inv, px>>

\* the awaited command returns; only the first command's result is kept
FileCommandReturn(outcome) ==
    /\ pc = "file"
    /\ ft.call.left # <<>>
    /\ LET cmd == Head(ft.call.left)
           path == ft.call.args.path
       IN /\ outcome = "ok" => CanSucceed(cmd, ft.files[path])
          /\ ft' = [ft EXCEPT
                      !.files[path] = IF outcome = "ok"
                                      THEN AfterCommand(cmd, ft.call.args, @) ELSE @,
                      !.call.left = Tail(@),
                      !.call.first = FALSE,
                      !.call.exit_code = IF ft.call.first THEN ExitCode(outcome) ELSE @]
    /\ UNCHANGED coreVars
    /\ UNCHANGED <<scr, sm, db, inv, px>>

\* _execute_file returns or raises, and execute_task returns the TaskResult
FileTaskReturn ==
    /\ pc = "file"
    /\ ft.call # NoFileCall
    /\ ft.call.left = <<>>
    /\ LET tr == FileTaskResult(ft.call.exit_code, ft.call.before, ft.call.args) IN
       ft' = [ft EXCEPT !.call = NoFileCall,
                        !.results = Append(@, [args |-> ft.call.args,
                                               before |-> ft.call.before,
                                               exit_code |-> ft.call.exit_code,
                                               status |-> tr.status,
                                               changed |-> tr.changed])]
    /\ UNCHANGED coreVars
    /\ UNCHANGED <<scr, sm, db, inv, px>>

----------------------------------------------------------------------------
(* PlaybookExecutor: execute_playbook, _execute_tasks_on_hosts, the host   *)
(* threads of its pool, and Run.add_log on the Run they share              *)

ExecutorHosts == {"h1", "h2"}
HostOrder == <<"h1", "h2">>         \* the order of the futures list
MainThread == "main"
Threads == ExecutorHosts \cup {MainThread}

\* the names bound in the module playbooks/executor.py by its imports
ExecutorGlobals ==
    {"asyncio", "uuid", "datetime", "List", "Dict", "Any", "Optional",
     "ThreadPoolExecutor", "as_completed", "Session", "Host", "Playbook", "Run",
     "RunStatus", "SSHManager", "PlaybookSchema"}

\* what SSHManager.execute_playbook_task returns: (success, message, output)
\* as whether it succeeded and whether the output is a non-empty string: a
\* command that exits 0 and prints, and a connection that fails (output "")
TaskOutcomes ==
    { [success |-> TRUE, output |-> TRUE], [success |-> FALSE, output |-> FALSE] }

\* the points of _execute_tasks_on_host at which it calls run.add_log
LogPoints ==
    {"starting", "executing", "outcome", "output", "stopping", "finished", "except"}

\* the message of the add_log call at the point
MessageAt(point, success) ==
    CASE point = "starting"  -> "Starting execution"
      [] point = "executing" -> "Executing task"
      [] point = "outcome"   -> IF success THEN "Task completed" ELSE "Task failed"
      [] point = "output"    -> "output"
      [] point = "stopping"  -> "Stopping execution due to task failure"
      [] point = "finished"  -> "All tasks completed successfully"
      [] point = "except"    -> "Execution failed"
      [] OTHER               -> "Host execution failed"

\* _execute_tasks_on_host with one task: where the thread goes once the
\* add_log call at the point has returned
AfterOutcome(th, ignore_errors) ==
    IF th.success \/ ignore_errors THEN "finished" ELSE "stopping"

NextPoint(th, ignore_errors) ==
    CASE th.pc = "starting"  -> "executing"
      [] th.pc = "executing" -> "ssh"
      [] th.pc = "outcome"   -> IF th.output THEN "output"
                                ELSE AfterOutcome(th, ignore_errors)
      [] th.pc = "output"    -> AfterOutcome(th, ignore_errors)
      [] th.pc = "stopping"  -> "returned"
      [] th.pc = "finished"  -> "returned"
      [] th.pc = "except"    -> "returned"

\* the add_log step a thread is at when it arrives at the point
StepAt(point) == IF point \in LogPoints THEN "test" ELSE "none"

\* a host thread: where it is, what its task returned, and the bool of the
\* tuple it returns
HostThread(point, success, output) ==
    [pc |-> point, success |-> success, output |-> output, result |-> FALSE]

\* the status _execute_tasks_on_hosts stores from its two counters
StatusOf(completed_hosts, failed_hosts) ==
    IF failed_hosts = 0 THEN "COMPLETED"
    ELSE IF completed_hosts = 0 THEN "FAILED"
    ELSE "PARTIAL"

\* the call made on the executor (entry, ignore_errors of the task), how it
\* ended, the Run (status, logs), the collecting loop of the calling thread
\* (j, completed_hosts, failed_hosts), the host threads, the step of add_log
\* each thread is at, and the history of the entries add_log was called with
NoExecutorCall ==
    [entry |-> "none", ignore_errors |-> FALSE, outcome |-> "none", error |-> None,
     status |-> "none", logs |-> <<>>,
     main |-> "idle", j |-> 1, completed_hosts |-> 0, failed_hosts |-> 0,
     threads |-> [h \in ExecutorHosts |-> HostThread("idle", FALSE, FALSE)],
     step |-> [t \in Threads |-> "none"],
     added |-> {}]

\* the entry the thread's add_log call appends
LogEntryOf(t) ==
    IF t = MainThread
    THEN [host_id |-> HostOrder[px.j], message |-> MessageAt("collect", FALSE)]
    ELSE [host_id |-> t, message |-> MessageAt(px.threads[t].pc, px.threads[t].success)]

\* PlaybookExecutor.execute_playbook: ValueError when the playbook, the hosts
\* or the given run are not found; else the Run is RUNNING and the try block
\* starts with yaml.safe_load, a name the module does not bind: NameError,
\* caught by the except clause, which stores FAILED, adds a log entry and
\* raises again
PlaybookExecutor_execute_playbook(playbook_found, hosts_found, run_found) ==
    /\ pc = "executor"
    /\ px.entry = "none"
    /\ IF ~playbook_found \/ ~hosts_found \/ ~run_found
       THEN px' = [px EXCEPT !.entry = "execute_playbook",
                             !.outcome = "raised", !.error = "ValueError"]
       ELSE IF "yaml" \notin ExecutorGlobals
       THEN px' = [px EXCEPT !.entry = "execute_playbook",
                             !.outcome = "raised", !.error = "NameError",
                             !.status = "FAILED",
                             !.logs = <<[host_id |-> "system",
                                         message |-> "Playbook execution failed"]>>,
                             !.added = {[host_id |-> "system",
                                         message |-> "Playbook execution failed"]}]
       ELSE px' = [px EXCEPT !.entry = "execute_playbook", !.status = "RUNNING",
                             !.main = "collect",
                             !.threads = [h \in ExecutorHosts |->
                                             HostThread("starting", FALSE, FALSE)],
                             !.step = [t \in Threads |->
                                          IF t = MainThread THEN "none" ELSE "test"]]
    /\ UNCHANGED coreVars
    /\ UNCHANGED <<scr, sm, db, inv, ft>>

\* PlaybookExecutor._execute_tasks_on_hosts called on a RUNNING Run: one
\* future per host is submitted to the pool, whose five workers start both
\* host threads, and the caller enters the collecting loop
ExecuteTasksOnHosts(ignore_errors) ==
    /\ pc = "executor"
    /\ px.entry = "none"
    /\ px' = [px EXCEPT !.entry = "_execute_tasks_on_hosts",
                        !.ignore_errors = ignore_errors,
                        !.status = "RUNNING",
                        !.main = "collect",
                        !.threads = [h \in ExecutorHosts |->
                                        HostThread("starting", FALSE, FALSE)],
                        !.step = [t \in Threads |->
                                     IF t = MainThread THEN "none" ELSE "test"]]
    /\ UNCHANGED coreVars
    /\ UNCHANGED <<scr, sm, db, inv, ft>>

\* Run.add_log, 'if not self.logs': an empty list is falsy
AddLogTest(t) ==
    /\ pc = "executor"
    /\ px.step[t] = "test"
    /\ px' = [px EXCEPT !.step[t] = IF px.logs = <<>> THEN "assign" ELSE "append"]
    /\ UNCHANGED coreVars
    /\ UNCHANGED <<scr, sm, db, inv, ft>>

\* Run.add_log, 'self.logs = []'
AddLogAssign(t) ==
    /\ pc = "executor"
    /\ px.step[t] = "assign"
    /\ px' = [px EXCEPT !.logs = <<>>, !.step[t] = "append"]
    /\ UNCHANGED coreVars
    /\ UNCHANGED <<scr, sm, db, inv, ft>>

\* Run.add_log, 'self.logs.append(log_entry)', and the thread runs on to its
\* next add_log call, its next blocking call, or its return
AddLogAppend(t) ==
    /\ pc = "executor"
    /\ px.step[t] = "append"
    /\ LET e == LogEntryOf(t)
           logged == [px EXCEPT !.logs = Append(@, e), !.added = @ \cup {e}]
       IN IF t = MainThread
          THEN px' = [logged EXCEPT !.step[t] = "none", !.main = "collect", !.j = @ + 1]
          ELSE LET point == NextPoint(px.threads[t], px.ignore_errors) IN
               px' = [logged EXCEPT !.step[t] = StepAt(point),
                                    !.threads[t].pc = point,
                                    !.threads[t].result = px.threads[t].pc = "finished"]
    /\ UNCHANGED coreVars
    /\ UNCHANGED <<scr, sm, db, inv, ft>>

\* SSHManager.execute_playbook_task returns in a host thread
TaskReturn(h, o) ==
    /\ pc = "executor"
    /\ px.threads[h].pc = "ssh"
    /\ px' = [px EXCEPT !.threads[h] = HostThread("outcome", o.success, o.output),
                        !.step[h] = "test"]
    /\ UNCHANGED coreVars
    /\ UNCHANGED <<scr, sm, db, inv, ft>>

\* SSHManager.execute_playbook_task raises in a host thread, which goes to
\* the except clause of _execute_tasks_on_host
TaskRaise(h) ==
    /\ pc = "executor"
    /\ px.threads[h].pc = "ssh"
    /\ px' = [px EXCEPT !.threads[h] = HostThread("except", FALSE, FALSE),
                        !.step[h] = "test"]
    /\ UNCHANGED coreVars
    /\ UNCHANGED <<scr, sm, db, inv, ft>>

\* _execute_tasks_on_hosts, future.result(timeout=300) of the j-th future
\* returns the host thread's tuple
Collect ==
    /\ pc = "executor"
    /\ px.main = "collect"
    /\ px.j <= Len(HostOrder)
    /\ LET th == px.threads[HostOrder[px.j]] IN
       /\ th.pc = "returned"
       /\ px' = [px EXCEPT !.j = @ + 1,
                           !.completed_hosts = IF th.result THEN @ + 1 ELSE @,
                           !.failed_hosts = IF th.result THEN @ ELSE @ + 1]
    /\ UNCHANGED coreVars
    /\ UNCHANGED <<scr, sm, db, inv, ft>>

\* future.result(timeout=300) raises TimeoutError while the host thread is
\* still running: failed_hosts += 1 and the calling thread calls run.add_log
CollectTimeout ==
    /\ pc = "executor"
    /\ px.main = "collect"
    /\ px.j <= Len(HostOrder)
    /\ px.threads[HostOrder[px.j]].pc = "ssh"
    /\ px' = [px EXCEPT !.failed_hosts = @ + 1, !.main = "log",
                        !.step[MainThread] = "test"]
    /\ UNCHANGED coreVars
    /\ UNCHANGED <<scr, sm, db, inv, ft>>

\* _execute_tasks_on_hosts after the loop: the status from the counters;
\* back in execute_playbook the next statement stores COMPLETED
SetRunStatus ==
    /\ pc = "executor"
    /\ px.main = "collect"
    /\ px.j > Len(HostOrder)
    /\ px' = [px EXCEPT !.main = "done", !.outcome = "returned",
                        !.status = IF px.entry = "execute_playbook" THEN "COMPLETED"
                                   ELSE StatusOf(px.completed_hosts, px.failed_hosts)]
    /\ UNCHANGED coreVars
    /\ UNCHANGED <<scr, sm, db, inv, ft>>


BatchSizes == {-1} \cup 0..MaxBatchSize
\* execution.get('batch_size', 10): the default when the playbook sets none
PlaybookBatchSizes == {0, DefaultBatchSize}
Forks == 1..MaxForks
Limits == {-1} \cup 0..MaxLimit          \* 0: no limit (None and 0 are both falsy)
TaskLists == UNION {[1..n -> TaskSpecs] : n \in 0..MaxTasks}

RunConfig(repr, ok, hosts, groups, limit, strategy, batch_size, pb_size, forks, tasks) ==
    [hostRepr |-> repr, playbook_ok |-> ok,
     target_hosts |-> hosts, target_groups |-> groups,
     limit |-> limit, strategy |-> strategy, batch_size |-> batch_size,
     pb_batch_size |-> pb_size, forks |-> forks, tasks |-> tasks,
     tags |-> {}, skip_tags |-> {},
     batch_delay |-> DefaultBatchDelay, pb_batch_delay |-> DefaultBatchDelay]

\* RunConfig.tags and RunConfig.skip_tags (None, the default, is the empty set)
TagFilters == {{}, {"deploy"}}
SkipTagFilters == {{}, {"slow"}}

\* RunConfig.batch_delay in seconds, and the playbook's execution.batch_delay
\* (execution.get('batch_delay', 300) when the playbook sets none)
BatchDelays == {0, 60}
PlaybookBatchDelays == {30, DefaultBatchDelay}

\* the run configurations explored; a field the chosen strategy never reads
\* keeps its default
RunConfigs ==
    { RunConfig("dict", FALSE, <<>>, <<>>, 0, "rolling", 1, DefaultBatchSize, 1, <<>>) }
    \cup
    { RunConfig("dataclass", TRUE, th, tg, 0, "rolling", 1, DefaultBatchSize, 1, <<>>) :
        th \in TargetHostChoices, tg \in TargetGroupChoices }
    \cup
    { RunConfig("dict", TRUE, c[1], c[2], c[3], "rolling", c[4], DefaultBatchSize, 1, c[5]) :
        c \in TargetHostChoices \X TargetGroupChoices \X Limits
              \X (BatchSizes \ {0}) \X TaskLists }
    \cup
    { RunConfig("dict", TRUE, c[1], c[2], c[3], "rolling", 0, c[4], 1, c[5]) :
        c \in TargetHostChoices \X TargetGroupChoices \X Limits
              \X PlaybookBatchSizes \X TaskLists }
    \cup
    { RunConfig("dict", TRUE, c[1], c[2], c[3], "parallel", 1, DefaultBatchSize, c[4], c[5]) :
        c \in TargetHostChoices \X TargetGroupChoices \X Limits \X Forks \X TaskLists }
    \cup
    { RunConfig("dict", TRUE, <<>>, <<"web">>, 0, "serial", 1, DefaultBatchSize, 1, <<>>) }
    \cup
    { [RunConfig("dict", TRUE, <<>>, <<"web">>, 0, "rolling", 1, DefaultBatchSize, 1, <<c[1]>>)
          EXCEPT !.tags = c[2], !.skip_tags = c[3]] :
        c \in TaggedTaskSpecs \X TagFilters \X SkipTagFilters }
    \cup
    { [RunConfig("dict", TRUE, <<>>, c[1], 0, "rolling", 1, DefaultBatchSize, 1, <<>>)
          EXCEPT !.batch_delay = c[2], !.pb_batch_delay = c[3]] :
        c \in {<<"web">>, <<"web", "db">>} \X BatchDelays \X PlaybookBatchDelays }
    \cup
    { RunConfig("dict", TRUE, <<>>, <<"web">>, 0, "rolling", 1, DefaultBatchSize, 1, <<t, u>>) :
        t \in RaisingConditionSpecs, u \in TaskSpecs }

HostStatuses == {"success", "failed", "skipped"}

\* the maps of host results _calculate_run_status is called on directly
ResultMaps ==
    UNION { [ids -> {HostResults(st, NoError, <<>>) : st \in HostStatuses}] :
            ids \in SUBSET Addresses }

InitCommon ==
    /\ target_hosts = <<>>
    /\ epc = "start"
    /\ i = 0
    /\ batch = <<>>
    /\ bpos = 1
    /\ cur = NoHost
    /\ batch_results = EmptyDict
    /\ batches = <<>>
    /\ sleeps = <<>>
    /\ pi = 0
    /\ sem = 0
    /\ hst = [id \in Addresses |-> NoCoroutine]
    /\ results = EmptyDict
    /\ remoteLog = [id \in Addresses |-> <<>>]
    /\ taskExecutions = <<>>
    /\ run_result = NoRunResult
    /\ report = "none"
    /\ timed_out = FALSE
    /\ connections = [id \in Addresses |-> 0]
    /\ established = [id \in Addresses |-> 0]
    /\ op = [p \in Callers |-> IdleCall]
    /\ scr = NoScript
    /\ db = EmptyAuditStore
    /\ inv = NewInventory
    /\ ft = NoFileTasks
    /\ px = NoExecutorCall

Init ==
    /\ InitCommon
    /\ sm = SecretsManager(FALSE)
    /\ \/ /\ pc = "loading"
          /\ cfg \in RunConfigs
          /\ calc = [in |-> EmptyDict, out |-> Absent]
       \/ /\ pc = "calc"
          /\ cfg = RunConfig("dict", TRUE, <<>>, <<>>, 0, "rolling", 1, DefaultBatchSize, 1, <<>>)
          /\ calc \in {[in |-> m, out |-> Absent] : m \in ResultMaps}

Next ==
    \/ LoadPlaybook
    \/ ResolveTargetHosts
    \/ ExecutePlaybook
    \/ RollingNextBatch
    \/ RollingHostBegin
    \/ RollingHostReturn
    \/ RollingBatchEnd
    \/ RollingSleepDone
    \/ \E id \in Addresses : ParallelHostBegin(id)
    \/ ParallelCollect
    \/ \E id \in Addresses, outcome \in OpOutcomes : CmdReturn(id, outcome)
    \/ Aggregate
    \/ GenerateRunReport
    \/ CalculateRunStatus

Spec == Init /\ [][Next]_vars

\* runs during which the configured timeout may elapse
TimeoutRunConfigs ==
    LET command == TaskSpec("command", FALSE, "none", "none", {}) IN
    { RunConfig("dict", FALSE, <<>>, <<>>, 0, "rolling", 1, DefaultBatchSize, 1, <<>>),
      RunConfig("dict", TRUE, <<>>, <<"web">>, 0, "rolling", 1, DefaultBatchSize, 1, <<command>>),
      RunConfig("dict", TRUE, <<>>, <<"web">>, 0, "rolling", 1, DefaultBatchSize, 1, <<>>),
      RunConfig("dict", TRUE, <<>>, <<"web">>, 0, "parallel", 1, DefaultBatchSize, 1, <<command>>) }

InitTimeout ==
    /\ InitCommon
    /\ sm = SecretsManager(FALSE)
    /\ \/ /\ pc = "loading"
          /\ cfg \in TimeoutRunConfigs
          /\ calc = [in |-> EmptyDict, out |-> Absent]
       \/ /\ pc = "calc"
          /\ cfg = RunConfig("dict", TRUE, <<>>, <<>>, 0, "rolling", 1, DefaultBatchSize, 1, <<>>)
          /\ calc \in {[in |-> m, out |-> Absent] : m \in ResultMaps}

NextTimeout ==
    \/ Next
    \/ RunTimeoutElapses

SpecTimeout == InitTimeout /\ [][NextTimeout]_vars

\* callers of one shared SSHExecutor, no playbook run
InitSSH ==
    /\ InitCommon
    /\ sm = SecretsManager(FALSE)
    /\ pc = "ssh"
    /\ cfg = RunConfig("dict", TRUE, <<>>, <<>>, 0, "rolling", 1, DefaultBatchSize, 1, <<>>)
    /\ calc = [in |-> EmptyDict, out |-> Absent]

NextSSH ==
    \/ \E p \in Callers, host_id \in SSHHostIds, kind \in {"dict", "dataclass"}, has_key \in BOOLEAN :
          ExecuteCommand(p, host_id, kind, has_key)
    \/ \E p \in Callers, outcome \in ConnectOutcomes : ConnectReturn(p, outcome)
    \/ \E p \in Callers, r \in RunOutcomes : RunReturn(p, r)
    \/ \E p \in Callers : CallerContinues(p)
    \/ \E host_id \in SSHHostIds : close_connection(host_id)

SpecSSH == InitSSH /\ [][NextSSH]_vars

----------------------------------------------------------------------------
(* Properties *)

Finished == pc \in {"aggregating", "reporting", "done"}

TargetIds == {Id(target_hosts[k]) : k \in 1..Len(target_hosts)}

Recorded(id) == hst[id].res.tasks

\* the aggregate status as the specification words it
ExpectedStatus(m) ==
    IF DOMAIN m = {} THEN "skipped"
    ELSE IF \A k \in DOMAIN m : m[k].status # "failed" THEN "success"
    ELSE IF \A k \in DOMAIN m : m[k].status # "success" THEN "failed"
    ELSE "partial"

\* C1: for every map of per-host outcomes the aggregate status is 'skipped'
\* for no hosts, 'success' when no host failed, 'failed' when some host
\* failed and none succeeded, 'partial' otherwise; a run that resolved no
\* host has status 'skipped', total_hosts 0 and logged no task execution
C1_AggregateStatus ==
    /\ pc = "calc_done" => calc.out = ExpectedStatus(calc.in)
    /\ run_result.status # "none" => run_result.status = ExpectedStatus(results)
    /\ (run_result.status # "none" /\ target_hosts = <<>>) =>
          /\ run_result.status = "skipped"
          /\ run_result.total_hosts = 0
          /\ taskExecutions = <<>>

C1_Witness ==
    /\ pc = "calc_done"
    /\ calc.out = "failed"
    /\ \E k \in DOMAIN calc.in : calc.in[k].status = "skipped"

\* C2: in every RunResult returned by run_playbook the successful, failed and
\* skipped host counts add up to total_hosts
C2_CountsSumToTotal ==
    run_result.returned =>
        run_result.successful_hosts + run_result.failed_hosts + run_result.skipped_hosts
            = run_result.total_hosts

\* C3: once a task without the ignore-failure flag is recorded as 'failed' on
\* a host, no later task is started on that host, no outcome exists for a
\* later task, and the host's status is 'failed'
C3_FailedTaskAborts ==
    \A id \in Addresses : \A k \in 1..Len(Recorded(id)) :
        (Recorded(id)[k].status = "failed" /\ ~cfg.tasks[k].ignore_errors) =>
            /\ hst[id].started = k
            /\ Len(Recorded(id)) = k
            /\ hst[id].res.status = "failed"
            /\ id \in DOMAIN results => results[id].status = "failed"

C3_Witness ==
    /\ epc = "finished"
    /\ Len(cfg.tasks) >= 2
    /\ \E id \in DOMAIN results :
          /\ Len(Recorded(id)) = 1
          /\ Recorded(id)[1].status = "failed"
          /\ ~cfg.tasks[1].ignore_errors
          /\ results[id].status = "failed"

\* C4: when a task carrying the ignore-failure flag is recorded as 'failed'
\* on a host, the tasks after it are still started on that host
C4_IgnoredFailureContinues ==
    \A id \in Addresses : \A k \in 1..Len(Recorded(id)) :
        (/\ hst[id].st = "done"
         /\ Recorded(id)[k].status = "failed"
         /\ cfg.tasks[k].ignore_errors
         /\ k < Len(cfg.tasks)) => hst[id].started > k

\* C5: when a host has failed, every resolved host still has been executed
\* and has its own entry in the results once the execution is over, under
\* both strategies; in rolling strategy the batches after a batch with a
\* failed host are dispatched
C5_FailureDoesNotStopSiblings ==
    (Finished /\ \E id \in Addresses : hst[id].st = "done" /\ hst[id].res.status = "failed") =>
        \A id \in TargetIds :
            /\ id \in DOMAIN results
            /\ hst[id].st = "done"
            /\ cfg.strategy = "rolling" => \E b \in 1..Len(batches) :
                                              \E k \in 1..Len(batches[b]) : batches[b][k] = id

C5_Witness ==
    /\ epc = "finished"
    /\ cfg.strategy = "rolling"
    /\ Len(batches) >= 2
    /\ results[batches[1][1]].status = "failed"
    /\ \A id \in TargetIds : id \in DOMAIN results

\* C6: under the rolling strategy every host execution in flight belongs to
\* the batch dispatched last: a batch is never dispatched while an execution
\* of an earlier batch has not returned
C6_BatchesDoNotOverlap ==
    cfg.strategy = "rolling" =>
        \A id \in InFlight : hst[id].batchNo = Len(batches)

C6_Witness ==
    /\ cfg.strategy = "rolling"
    /\ \E id \in InFlight : hst[id].batchNo = 2
    /\ \E id \in Addresses : hst[id].batchNo = 1 /\ hst[id].st = "done"

\* C7: under the rolling strategy with N hosts and batch size B >= 1 exactly
\* ceil(N/B) batches are dispatched, every batch but the last holds exactly
\* B hosts, and every resolved host is executed in exactly one batch
C7_BatchCount ==
    LET B == EffectiveBatchSize(cfg)
        N == Len(target_hosts)
    IN (Finished /\ cfg.strategy = "rolling" /\ B >= 1) =>
          /\ Len(batches) = (N + B - 1) \div B
          /\ \A b \in 1..(Len(batches) - 1) : Len(batches[b]) = B
          /\ \A b \in 1..Len(batches) : Len(batches[b]) >= 1 /\ Len(batches[b]) <= B
          /\ \A id \in TargetIds :
                /\ Cardinality({p \in (1..Len(batches)) \X (1..N) :
                                  /\ p[2] <= Len(batches[p[1]])
                                  /\ batches[p[1]][p[2]] = id}) = 1
                /\ hst[id].st = "done"

C7_Witness ==
    /\ pc = "done"
    /\ cfg.strategy = "rolling"
    /\ EffectiveBatchSize(cfg) = 2
    /\ Len(target_hosts) = 3
    /\ Len(batches) = 2

\* C8: under the parallel strategy the number of host executions started and
\* not yet finished never exceeds the configured forks
C8_ForksBound ==
    cfg.strategy = "parallel" => Cardinality(InFlight) <= cfg.forks

\* C9: on every host at most one task is started and not yet recorded, and a
\* task is started only when the outcomes of all tasks before it are recorded
C9_TasksSequential ==
    \A id \in Addresses :
        /\ hst[id].started <= Len(Recorded(id)) + 1
        /\ hst[id].st = "awaiting" => hst[id].started = Len(Recorded(id)) + 1
        /\ \A k \in 1..Len(Recorded(id)) : Recorded(id)[k].name = k

C9_Witness ==
    \E id \in Addresses :
        /\ hst[id].st = "awaiting"
        /\ Len(cfg.tasks) >= 2
        /\ hst[id].started = 1
        /\ Recorded(id) = <<>>

\* C10: a run in which every task is of a registered type and not skipped
\* and every remote command on every resolved host exits 0 has a RunResult
\* with status 'success' and failed_hosts = 0
C10_AllSucceed ==
    (/\ run_result.status # "none"
     /\ target_hosts # <<>>
     /\ \A k \in 1..Len(cfg.tasks) :
           cfg.tasks[k].task \in task_types /\ ~_should_skip_task(cfg.tasks[k], cfg)
     /\ \A id \in TargetIds :
           /\ hst[id].st = "done"
           /\ \A k \in 1..Len(remoteLog[id]) : remoteLog[id][k] = 0)
        => (run_result.status = "success" /\ run_result.failed_hosts = 0)

\* C11: a run whose host execution is over, whatever the per-host outcomes,
\* does not end in an exception raised to the invoker; a run that is done
\* has returned its RunResult and written its report
C11_AlwaysResultAndReport ==
    /\ epc = "finished" => pc # "raised"
    /\ pc = "done" => (report = "written" /\ run_result.returned)

RunPhaseSet == {RunPhases[k] : k \in 1..Len(RunPhases)} \cup {"raised"}

\* C12: a run changes phase only to the next phase of loading, resolving,
\* executing, aggregating, reporting, done, or to failed (the exception
\* raised to the invoker), and never leaves done or failed
C12_PhaseOrder ==
    [][(pc \in RunPhaseSet /\ pc' # pc) =>
          /\ pc \notin {"done", "raised"}
          /\ \/ pc' = "raised"
             \/ \E k \in 1..(Len(RunPhases) - 1) : RunPhases[k] = pc /\ RunPhases[k + 1] = pc']_vars

C12_Witness ==
    /\ pc = "done"
    /\ report = "written"
    /\ target_hosts # <<>>
    /\ \A k \in 1..Len(target_hosts) : Id(target_hosts[k]) \in DOMAIN results

\* C13: once the run-level timeout is reached no host execution begins and
\* no task is started on any host
C13_TimeoutStopsWork ==
    [][timed_out =>
          \A id \in Addresses :
              /\ hst'[id].started = hst[id].started
              /\ hst[id].st \in {"none", "scheduled"} => hst'[id].st = hst[id].st]_vars

\* the target list as the claim words it
C14_Claimed ==
    LET all == NamedHosts(cfg.target_hosts) \o GroupHosts(cfg.target_groups)
        keep == {k \in 1..Len(all) :
                    \A j \in 1..(k - 1) : all[j].ansible_host # all[k].ansible_host}
        uniq == [m \in 1..Cardinality(keep) |->
                    all[CHOOSE k \in keep : Cardinality({j \in keep : j < k}) = m - 1]]
        n == Len(uniq)
    IN IF cfg.limit >= 1
       THEN SubSeq(uniq, 1, IF cfg.limit < n THEN cfg.limit ELSE n)
       ELSE uniq

\* C14: once a run with no limit or a limit L >= 1 is past resolving, its
\* target list is the named hosts found followed by the hosts of the named
\* groups, first occurrence of each host identity only, cut to the first
\* min(L, n) hosts
C14_ResolvedTargets ==
    (/\ cfg.playbook_ok
     /\ cfg.limit >= 0
     /\ pc \in RunPhaseSet \ {"loading", "resolving"}) => target_hosts = C14_Claimed

\* C15: no host identity occurs twice in the target list, so that no host
\* identity has more than one execution in flight, under both strategies
C15_OneExecutionPerHost ==
    /\ \A j, k \in 1..Len(target_hosts) :
          j # k => Id(target_hosts[j]) # Id(target_hosts[k])
    /\ \A id \in Addresses :
          Cardinality({k \in 1..Len(target_hosts) :
                          Id(target_hosts[k]) = id /\ hst[id].st = "awaiting"}) <= 1

C15_Witness ==
    /\ cfg.strategy = "parallel"
    /\ cfg.target_hosts = <<"ghost", "web-02">>
    /\ cfg.target_groups = <<"all">>
    /\ Len(target_hosts) = 3
    /\ hst["a1"].st = "awaiting"
    /\ hst["a2"].st = "awaiting"

\* C16: for every host identity at most one connection is established
\* between two closes
C16_OneConnectionPerHost ==
    \A host_id \in Addresses : established[host_id] <= 1

TransportFailures ==
    {"auth_failure", "unreachable", "protocol_error", "connect_timeout", "missing_key",
     "connection_lost"}

ConnectFailures ==
    {"auth_failure", "unreachable", "protocol_error", "connect_timeout", "missing_key"}

\* C17: a call of execute_command that met a transport-level failure has
\* returned a result with a non-zero exit code and has not raised
C17_TransportFailureReturned ==
    \A p \in Callers :
        op[p].cause \in TransportFailures =>
            (op[p].pc = "returned" /\ op[p].result.exit_code # 0)

C17_Witness ==
    \E p \in Callers :
        /\ op[p].pc = "returned"
        /\ op[p].cause = "auth_failure"
        /\ op[p].result = SSHResult(FailureExitCode, "", "Permission denied")

\* C18: the result returned for a failure to establish the connection
\* differs from every result returned for a command that ran and exited
\* non-zero
C18_ConnectFailureDistinct ==
    \A p, q \in Callers :
        (/\ op[p].pc = "returned" /\ op[p].cause \in ConnectFailures
         /\ op[q].pc = "returned" /\ op[q].cause = "exited"
         /\ op[q].result.exit_code # 0) => op[p].result # op[q].result

\* C19: a command that exceeds its timeout makes execute_command return a
\* result with exit code 124, and no other failure path returns 124
C19_TimeoutCodeReserved ==
    \A p \in Callers :
        /\ op[p].cause = "command_timeout" =>
              (op[p].pc = "returned" /\ op[p].result.exit_code = TimeoutExitCode)
        /\ (/\ op[p].pc = "returned"
            /\ op[p].result.exit_code = TimeoutExitCode
            /\ op[p].cause # "exited") => op[p].cause = "command_timeout"

\* C20: the result of a command that timed out carries the output captured
\* before the deadline
C20_TimeoutKeepsOutput ==
    \A p \in Callers :
        (op[p].pc = "returned" /\ op[p].cause = "command_timeout") =>
            op[p].result.stdout = op[p].captured

\* script calls on one host, no playbook run
InitScript ==
    /\ InitCommon
    /\ sm = SecretsManager(FALSE)
    /\ pc = "script"
    /\ cfg = RunConfig("dict", TRUE, <<>>, <<>>, 0, "rolling", 1, DefaultBatchSize, 1, <<>>)
    /\ calc = [in |-> EmptyDict, out |-> Absent]

NextScript ==
    \/ \E variant \in ScriptVariants, kind \in {"dict", "dataclass"} : ScriptCall(variant, kind)
    \/ \E ok \in BOOLEAN : CopyReturn(ok)
    \/ \E exit_code \in ScriptExitCodes : ChmodReturn(exit_code)
    \/ \E exit_code \in ScriptExitCodes : ScriptRunReturn(exit_code)
    \/ \E exit_code \in ScriptExitCodes : RmReturn(exit_code)
    \/ ScriptDone

SpecScript == InitScript /\ [][NextScript]_vars

\* C21: whenever the script was staged on the host, a removal of the staged
\* file has been issued by the time the script call returns or raises
C21_ScriptRemoved ==
    (scr.pc \in {"returned", "raised"} /\ scr.staged) =>
        \E k \in 1..Len(scr.issued) : scr.issued[k] = "rm"

C21_Witness ==
    /\ scr.pc = "returned"
    /\ scr.variant = "execute_script"
    /\ scr.staged
    /\ scr.exit_code = TimeoutExitCode
    /\ scr.issued = <<"chmod", "run", "rm">>

RECURSIVE OpsOfDispatched(_, _)
\* the remote operations of the handlers of tasks 1..n, counting none for a
\* task the claim calls skipped and none for an unregistered type
OpsOfDispatched(tasks, n) ==
    IF n = 0 THEN 0
    ELSE OpsOfDispatched(tasks, n - 1) +
         (IF \/ tasks[n].when = "false"
             \/ tasks[n].only_if = "false"
             \/ cfg.tags # {} /\ cfg.tags \cap tasks[n].tags = {}
             \/ cfg.skip_tags \cap tasks[n].tags # {}
             \/ tasks[n].task \notin task_types
          THEN 0 ELSE RemoteOps(tasks[n].task))

\* the task is one the claim calls skipped
C22_Skipped(task_config) ==
    \/ task_config.when = "false"
    \/ task_config.only_if = "false"
    \/ cfg.tags # {} /\ cfg.tags \cap task_config.tags = {}
    \/ cfg.skip_tags \cap task_config.tags # {}

\* C22: a task whose when/only_if condition is false, that shares no tag with
\* a non-empty run tag filter, or that shares a tag with the skip-tag filter,
\* is recorded with status 'skipped', no handler is ever awaited for it, and
\* the host's remote operations are only those of its other tasks
C22_SkippedNoEffect ==
    \A id \in Addresses :
        /\ \A k \in 1..Len(Recorded(id)) :
              C22_Skipped(cfg.tasks[k]) => Recorded(id)[k].status = "skipped"
        /\ hst[id].st = "awaiting" => ~C22_Skipped(cfg.tasks[hst[id].k])
        /\ Len(remoteLog[id]) <= OpsOfDispatched(cfg.tasks, hst[id].started)

\* a task skipped by the skip-tag filter alone was recorded
C22_Witness ==
    \E id \in Addresses :
        /\ cfg.skip_tags = {"slow"}
        /\ cfg.tags = {"deploy"}
        /\ Len(Recorded(id)) = 1
        /\ cfg.tasks[1].tags = {"deploy", "slow"}
        /\ Recorded(id)[1].status = "skipped"
        /\ remoteLog[id] = <<>>

\* task k of the run was handed to a handler
Dispatched(k) ==
    cfg.tasks[k].task \in task_types /\ ~_should_skip_task(cfg.tasks[k], cfg)

\* C23: for every host, the task_executions rows of the run are as many as the
\* dispatched tasks whose outcome the host has recorded
C23_RecordedOnce ==
    \A id \in Addresses :
        Cardinality({j \in 1..Len(taskExecutions) : taskExecutions[j].host = id})
          = Cardinality({k \in 1..Len(Recorded(id)) : Dispatched(k)})

\* C24: a task whose handler returned a result keeps the status the handler
\* returned when its audit record could not be written
C24_AuditFailureHarmless ==
    \A id \in Addresses : \A k \in 1..Len(Recorded(id)) :
        (/\ Dispatched(k)
         /\ \A c \in {0, 1} : ~HandlerReturn(cfg.tasks[k].task, c).raised
         /\ ~\E j \in 1..Len(taskExecutions) :
                taskExecutions[j].host = id /\ taskExecutions[j].task_name = k)
        => \E c \in {0, 1} :
              Recorded(id)[k].status = HandlerReturn(cfg.tasks[k].task, c).status

\* the handler of task k raises
C25_HandlerRaises(k) ==
    Dispatched(k) /\ \A c \in {0, 1} : HandlerReturn(cfg.tasks[k].task, c).raised

\* C25: a task whose handler raised is recorded for its host as 'failed'
\* with the exception's text, the host execution goes on to its end without
\* the exception, and no later task of the host is started
C25_HandlerExceptionContained ==
    \A id \in Addresses : \A k \in 1..Len(Recorded(id)) :
        C25_HandlerRaises(k) =>
            /\ Recorded(id)[k].status = "failed"
            /\ Recorded(id)[k].error = HandlerReturn(cfg.tasks[k].task, 0).error
            /\ Recorded(id)[k].error # NoError
            /\ hst[id].st = "done"
            /\ hst[id].started = k
            /\ Len(Recorded(id)) = k

C25_Witness ==
    \E id \in Addresses :
        /\ Len(cfg.tasks) = 2
        /\ Len(Recorded(id)) = 1
        /\ C25_HandlerRaises(1)
        /\ Len(remoteLog[id]) = 1
        /\ Recorded(id)[1].status = "failed"
        /\ hst[id].st = "done"

InitSecrets ==
    /\ InitCommon
    /\ pc = "secrets"
    /\ cfg = RunConfig("dict", TRUE, <<>>, <<>>, 0, "rolling", 1, DefaultBatchSize, 1, <<>>)
    /\ calc = [in |-> EmptyDict, out |-> Absent]
    /\ sm \in {SecretsManager(vault_enabled) : vault_enabled \in BOOLEAN}

NextSecrets ==
    \/ \E key \in SecretKeys, b \in BackendNames, fails \in BOOLEAN :
          GetSecret(key, b, fails)
    \/ \E key \in SecretKeys, value \in SecretValues, b \in BackendNames, fails \in BOOLEAN :
          SetSecret(key, value, b, fails)
    \/ \E key \in SecretKeys, b \in BackendNames, fails \in BOOLEAN :
          DeleteSecret(key, b, fails)

SpecSecrets == InitSecrets /\ [][NextSecrets]_vars

\* C27: no outcome get_secret gave for an unavailable backend equals an
\* outcome it gave for an available backend that does not hold the key
C27_UnavailableDistinct ==
    \A x, y \in sm.seen :
        (x.case = "unavailable" /\ y.case = "missing") => x.outcome # y.outcome

\* the calls made on the audit store
EventInputs ==
    { [event_type |-> "run_started", user |-> "alice", host |-> "web-01", run_id |-> "r1",
       details |-> [k \in {"hosts"} |-> PyList(<<"web-01", "web-02">>)]],
      [event_type |-> "run_started", user |-> "bob", host |-> "web-01", run_id |-> None,
       details |-> [k \in {"package_path"} |-> PyStr("/opt/pkg")]],
      [event_type |-> "task_executed", user |-> "alice", host |-> "web-02", run_id |-> "r1",
       details |-> [k \in {} |-> PyStr("")]] }

TaskInputs ==
    { [run_id |-> "r1", host |-> "web-01", start_time |-> 0, status |-> "success",
       changed |-> TRUE, facts |-> [k \in {"backup_path"} |-> PyStr("/backup")]],
      [run_id |-> "r1", host |-> "web-02", start_time |-> 0, status |-> "failed",
       changed |-> FALSE, facts |-> [k \in {} |-> PyStr("")]] }

QueryLimits == 0..MaxQueryLimit

EventQueries ==
    { [NoQuery EXCEPT !.start_time = c[1], !.end_time = c[2], !.event_type = c[3][1],
                      !.user = c[3][2], !.host = c[3][3], !.run_id = c[3][4],
                      !.limit = c[4]] :
        c \in {NoTime, 1} \X {NoTime, 1, 2}
              \X { <<None, None, None, None>>, <<None, "alice", None, None>>,
                   <<None, None, "web-01", "r1">>, <<"run_started", "", None, None>> }
              \X QueryLimits }

TaskQueries ==
    { [NoQuery EXCEPT !.run_id = c[1][1], !.host = c[1][2], !.status = c[1][3],
                      !.limit = c[2]] :
        c \in { <<None, None, None>>, <<"r1", None, None>>,
                <<None, "web-01", "success">>, <<"", None, "failed">> }
              \X QueryLimits }

CleanupDays == {-1, 0, 1}

\* an audit store on its own
InitAudit ==
    /\ InitCommon
    /\ sm = SecretsManager(FALSE)
    /\ pc = "audit"
    /\ cfg = RunConfig("dict", TRUE, <<>>, <<>>, 0, "rolling", 1, DefaultBatchSize, 1, <<>>)
    /\ calc = [in |-> EmptyDict, out |-> Absent]

NextAudit ==
    \/ Tick
    \/ CallReturned
    \/ \E in \in EventInputs, ok \in BOOLEAN : LogEvent(in, ok)
    \/ \E in \in TaskInputs, age \in {0, 1}, ok \in BOOLEAN : LogTaskExecution(in, age, ok)
    \/ \E q \in EventQueries : GetEvents(q)
    \/ \E q \in TaskQueries : GetTaskExecutions(q)
    \/ \E days \in CleanupDays : CleanupOldEvents(days)

SpecAudit == InitAudit /\ [][NextAudit]_vars

\* a filter the caller gave: None and the empty string ask for nothing
Given(filter) == filter # None /\ filter # ""

\* the logged event has the values the query's filters ask for
EventFits(e, q) ==
    /\ q.start_time # NoTime => e.timestamp >= q.start_time
    /\ q.end_time # NoTime => e.timestamp <= q.end_time
    /\ Given(q.event_type) => e.event_type = q.event_type
    /\ Given(q.user) => e.user = q.user
    /\ Given(q.host) => e.host = q.host
    /\ Given(q.run_id) => e.run_id = q.run_id

\* the logged task execution has the values the query's filters ask for
TaskFits(e, q) ==
    /\ Given(q.run_id) => e.run_id = q.run_id
    /\ Given(q.host) => e.host = q.host
    /\ Given(q.status) => e.status = q.status

\* C28: a query returns every logged record that its filters fit, with the
\* values that were logged, when its limit is at least the number of fitting
\* records and no cleanup has passed the record's time
C28_RoundTrip ==
    /\ db.op.name = "get_events" =>
          \A e \in db.logged_events :
              (/\ EventFits(e, db.op.q)
               /\ db.op.q.limit >= Cardinality({x \in db.logged_events : EventFits(x, db.op.q)}))
              => \E n \in 1..Len(db.op.result) : db.op.result[n] = e
    /\ db.op.name = "get_task_executions" =>
          \A e \in db.logged_tasks :
              (/\ TaskFits(e, db.op.q)
               /\ db.op.q.limit >= Cardinality({x \in db.logged_tasks : TaskFits(x, db.op.q)}))
              => \E n \in 1..Len(db.op.result) : db.op.result[n] = e

\* an event logged at the very time both time filters name came back with
\* its list-valued details
C28_Witness ==
    /\ db.op.name = "get_events"
    /\ db.op.q.start_time = 1
    /\ db.op.q.end_time = 1
    /\ db.op.q.user = "alice"
    /\ Len(db.op.result) = 1
    /\ db.op.result[1] \in db.logged_events
    /\ db.op.result[1].timestamp = 1
    /\ db.op.result[1].details = [k \in {"hosts"} |-> PyList(<<"web-01", "web-02">>)]

\* C29: a cleanup call leaves in each table exactly the rows whose logged time
\* is not before now minus days, unchanged and in their order; every other
\* step leaves every stored row as it is and at most appends one
C29_CleanupExact ==
    [][ IF db.op.name = "none" /\ db'.op.name = "cleanup_old_events"
        THEN LET cutoff == db.now - db'.op.days * TicksPerDay
                 KeptEvent(row) ==
                     \E e \in db.logged_events :
                         e.event_id = row.event_id /\ e.timestamp >= cutoff
                 KeptTask(row) ==
                     \E e \in db.logged_tasks :
                         e.task_id = row.task_id /\ e.start_time >= cutoff
             IN /\ db'.events = SelectSeq(db.events, KeptEvent)
                /\ db'.tasks = SelectSeq(db.tasks, KeptTask)
        ELSE /\ Len(db'.events) >= Len(db.events)
             /\ SubSeq(db'.events, 1, Len(db.events)) = db.events
             /\ Len(db'.tasks) >= Len(db.tasks)
             /\ SubSeq(db'.tasks, 1, Len(db.tasks)) = db.tasks ]_vars

\* a cleanup removed one of two records and kept the one logged exactly at
\* the cutoff
C29_Witness ==
    /\ db.op.name = "cleanup_old_events"
    /\ db.op.days = 1
    /\ db.next_id = 3
    /\ Len(db.events) = 1
    /\ db.tasks = <<>>
    /\ db.events[1].timestamp = isoformat(db.now - TicksPerDay)

\* C30: what a query returns are stored records that fit all given filters,
\* no record twice, newest first, at most limit of them; when more than limit
\* records fit, limit records are returned and no fitting record left out is
\* newer than a returned one
C30_NewestLimit ==
    /\ db.op.name = "get_events" =>
          LET res == db.op.result
              q == db.op.q
              fit == {e \in db.logged_events : EventFits(e, q)}
          IN /\ \A n \in 1..Len(res) : res[n] \in fit
             /\ \A a, b \in 1..Len(res) :
                   a < b => res[a] # res[b] /\ res[a].timestamp >= res[b].timestamp
             /\ Len(res) <= q.limit
             /\ Cardinality(fit) > q.limit =>
                   /\ Len(res) = q.limit
                   /\ \A e \in fit : \A n \in 1..Len(res) :
                         (\A m \in 1..Len(res) : res[m] # e)
                            => res[n].timestamp >= e.timestamp
    /\ db.op.name = "get_task_executions" =>
          LET res == db.op.result
              q == db.op.q
              fit == {e \in db.logged_tasks : TaskFits(e, q)}
          IN /\ \A n \in 1..Len(res) : res[n] \in fit
             /\ \A a, b \in 1..Len(res) :
                   a < b => res[a] # res[b] /\ res[a].start_time >= res[b].start_time
             /\ Len(res) <= q.limit
             /\ Cardinality(fit) > q.limit =>
                   /\ Len(res) = q.limit
                   /\ \A e \in fit : \A n \in 1..Len(res) :
                         (\A m \in 1..Len(res) : res[m] # e)
                            => res[n].start_time >= e.start_time

\* of two fitting task executions the one that started later was returned,
\* though it was logged first
C30_Witness ==
    /\ db.op.name = "get_task_executions"
    /\ db.op.q.limit = 1
    /\ db.op.q.run_id = "r1"
    /\ Cardinality(db.logged_tasks) = 2
    /\ Len(db.op.result) = 1
    /\ db.op.result[1].task_id = 1
    /\ \E e \in db.logged_tasks : e.task_id = 2 /\ e.start_time < db.op.result[1].start_time

(***************************************************************************)
(* The waits of the rolling strategy                                       *)
(***************************************************************************)

\* a rolling execution that is over has slept once less than it had batches
OneSleepLessThanBatches ==
    (cfg.strategy = "rolling" /\ Finished /\ batches # <<>>) =>
        Len(sleeps) = Len(batches) - 1

\* C36: once a rolling execution is over it has slept once less than it had
\* batches, so never after the last one, and every sleep lasted the
\* batch_delay of the run configuration: zero seconds when that is 0
C36_RollingDelays ==
    /\ OneSleepLessThanBatches
    /\ (cfg.strategy = "rolling" /\ Finished) =>
          \A n \in 1..Len(sleeps) : sleeps[n] = cfg.batch_delay

(***************************************************************************)
(* Conditions that cannot be evaluated                                     *)
(***************************************************************************)

\* the evaluation of the task's when or only_if condition raises
ConditionRaises(task_config) ==
    task_config.when = "error" \/ task_config.only_if = "error"

\* a task whose condition raises is recorded 'skipped' and never awaited
RaisingConditionSkipped ==
    \A id \in Addresses :
        /\ hst[id].st = "awaiting" => ~ConditionRaises(cfg.tasks[hst[id].k])
        /\ \A k \in 1..Len(Recorded(id)) :
              ConditionRaises(cfg.tasks[k]) => Recorded(id)[k].status = "skipped"

\* C38: a task whose condition raises is recorded 'skipped', no handler is
\* awaited for it, and when tasks follow it the host goes on to the next one
C38_RaisingConditionSkips ==
    /\ RaisingConditionSkipped
    /\ \A id \in Addresses : \A k \in 1..Len(Recorded(id)) :
          (/\ ConditionRaises(cfg.tasks[k])
           /\ hst[id].st = "done"
           /\ k < Len(cfg.tasks)) => hst[id].started > k

(***************************************************************************)
(* Calls on one Inventory                                                  *)
(***************************************************************************)

InitInventory ==
    /\ InitCommon
    /\ sm = SecretsManager(FALSE)
    /\ pc = "inventory"
    /\ cfg = RunConfig("dict", TRUE, <<>>, <<>>, 0, "rolling", 1, DefaultBatchSize, 1, <<>>)
    /\ calc = [in |-> EmptyDict, out |-> Absent]

NextInventory ==
    \/ \E inventory_data \in InventoryDocs : Load(inventory_data)
    \/ LoadSaved
    \/ \E host \in CallerHosts : AddHost(host)
    \/ \E host_name \in HostNames : RemoveHost(host_name)
    \/ \E host_name \in HostNames, update \in HostUpdates : UpdateHost(host_name, update)
    \/ \E group \in DOMAIN CallerGroups : AddGroup(group)
    \/ Save
    \/ \E group_name \in GroupNames : GetGroupHosts(group_name)
    \/ InventoryCallReturned

SpecInventory == InitInventory /\ [][NextInventory]_vars

\* the name of the Host object behind a reference
NameOf(host) == inv.host_objs[host].name

\* the names a list of Host references carries
NamesIn(hosts) == {NameOf(hosts[n]) : n \in 1..Len(hosts)}

\* no two positions of the list hold hosts of the same name
EachNameOnce(hosts) ==
    \A a, b \in 1..Len(hosts) : a # b => NameOf(hosts[a]) # NameOf(hosts[b])

\* the names of the child groups of the groups stored under the names
ChildNamesOf(names) ==
    {inv.group_objs[c].name :
        c \in UNION {Elements(inv.group_objs[Lookup(inv.groups, g)].children) :
                        g \in names \cap Keys(inv.groups)}}

\* the names reachable from the names over at most n child references
RECURSIVE Descendants(_, _)
Descendants(names, n) ==
    IF n = 0 THEN names ELSE Descendants(names \cup ChildNamesOf(names), n - 1)

\* the group and all groups below it
GroupsUnder(group_name) ==
    Descendants({group_name}, Len(inv.groups)) \cap Keys(inv.groups)

\* the inventory is what one load of a valid document has built
LoadedValidDoc ==
    /\ inv.history = <<"load">>
    /\ inv.doc # <<>>
    /\ inv.doc[1] \in ValidInventoryDocs

\* C31: in an inventory loaded from a valid document, get_group_hosts(g)
\* returns the hosts of g and of every group below g, and no host twice
C31_EachHostOnce ==
    (LoadedValidDoc /\ inv.op.name = "get_group_hosts") =>
        /\ inv.op.ok
        /\ NamesIn(inv.op.hosts) =
              UNION {NamesIn(inv.group_objs[Lookup(inv.groups, g)].hosts) :
                        g \in GroupsUnder(inv.op.arg)}
        /\ EachNameOnce(inv.op.hosts)

\* the child references below the group lead back to a group they left
CyclicFrom(group_name) ==
    \E g \in GroupsUnder(group_name) :
        g \in Descendants(ChildNamesOf({g}), Len(inv.groups))

\* C32: get_group_hosts on a group whose child references form a cycle ends
\* with a configuration error
C32_CycleDetected ==
    (inv.op.name = "get_group_hosts" /\ CyclicFrom(inv.op.arg)) =>
        inv.op.error = "ConfigError"

\* C33: after loads, add_host, update_host and remove_host calls,
\* get_all_hosts holds no two hosts of the same name and holds exactly the
\* hosts get_host finds
C33_UniqueHostNames ==
    Elements(inv.history) \subseteq {"load", "add_host", "update_host", "remove_host"} =>
        /\ EachNameOnce(inv.all_hosts)
        /\ Elements(inv.all_hosts) =
              UNION {Elements(Inventory_get_host(inv, n)) : n \in HostNames}

\* what the claim calls the logical structure: for every group its name,
\* its direct hosts with their attributes, its child groups and its variables
GroupFacts(s) ==
    { [name |-> e.k,
       hosts |-> {s.host_objs[h] : h \in Elements(s.group_objs[e.v].hosts)},
       children |-> {s.group_objs[c].name : c \in Elements(s.group_objs[e.v].children)},
       vars |-> s.group_objs[e.v].variables] : e \in Elements(s.groups) }

\* an Inventory loaded from a valid document has been saved
SavedLoadedDoc ==
    /\ inv.history = <<"load", "save">>
    /\ inv.op.name = "save"
    /\ inv.doc[1] \in ValidInventoryDocs

\* C34: when an Inventory loaded from a valid document is saved, loading the
\* written file into a new Inventory gives the groups, nesting, direct hosts
\* and group variables of the saved Inventory
C34_SaveLoadRoundTrip ==
    SavedLoadedDoc =>
        /\ inv.op.ok
        /\ GroupFacts(_parse_inventory(NewInventory, inv.file[1])) = GroupFacts(inv)

\* C37: once remove_host(h) has returned True, no host named h is returned
\* by get_host, by get_all_hosts or by get_group_hosts of any group
C37_RemovedHostGone ==
    (inv.op.name = "remove_host" /\ inv.op.ok) =>
        /\ Inventory_get_host(inv, inv.op.arg) = <<>>
        /\ inv.op.arg \notin NamesIn(inv.all_hosts)
        /\ \A g \in Keys(inv.groups) :
              inv.op.arg \notin NamesIn(Inventory_get_group_hosts(inv, g, 0).hosts)

(***************************************************************************)
(* File tasks applied to one host                                          *)
(***************************************************************************)

InitFile ==
    /\ InitCommon
    /\ sm = SecretsManager(FALSE)
    /\ pc = "file"
    /\ cfg = RunConfig("dict", TRUE, <<>>, <<>>, 0, "rolling", 1, DefaultBatchSize, 1, <<>>)
    /\ calc = [in |-> EmptyDict, out |-> Absent]

NextFile ==
    \/ \E args \in FileTaskArgs : FileTaskCall(args)
    \/ \E outcome \in OpOutcomes : FileCommandReturn(outcome)
    \/ FileTaskReturn

SpecFile == InitFile /\ [][NextFile]_vars

\* what the host holds at the path once the task's commands have succeeded
Desired(args) ==
    FileEntry(IF args.directory THEN "directory" ELSE "file",
              IF args.owner = None THEN "root" ELSE args.owner,
              IF args.group = None THEN "root" ELSE args.group,
              IF args.mode = None THEN "0644" ELSE args.mode)

\* C35: a file task with state present whose command exited 0 reports
\* changed True when the path was absent before, and changed False when
\* the path was as the task wants it before
C35_FileChangeSignal ==
    \A n \in 1..Len(ft.results) :
        LET r == ft.results[n] IN
        (r.args.state = "present" /\ r.exit_code = 0) =>
            /\ r.before = NoFile => r.changed
            /\ r.before = Desired(r.args) => ~r.changed

(***************************************************************************)
(* Calls on a PlaybookExecutor                                             *)
(***************************************************************************)

InitExecutor ==
    /\ InitCommon
    /\ sm = SecretsManager(FALSE)
    /\ pc = "executor"
    /\ cfg = RunConfig("dict", TRUE, <<>>, <<>>, 0, "rolling", 1, DefaultBatchSize, 1, <<>>)
    /\ calc = [in |-> EmptyDict, out |-> Absent]

NextExecutor ==
    \/ \E playbook_found, hosts_found, run_found \in BOOLEAN :
          PlaybookExecutor_execute_playbook(playbook_found, hosts_found, run_found)
    \/ \E ignore_errors \in BOOLEAN : ExecuteTasksOnHosts(ignore_errors)
    \/ \E t \in Threads : AddLogTest(t)
    \/ \E t \in Threads : AddLogAssign(t)
    \/ \E t \in Threads : AddLogAppend(t)
    \/ \E h \in ExecutorHosts, o \in TaskOutcomes : TaskReturn(h, o)
    \/ \E h \in ExecutorHosts : TaskRaise(h)
    \/ Collect
    \/ CollectTimeout
    \/ SetRunStatus

SpecExecutor == InitExecutor /\ [][NextExecutor]_vars

\* the call is over and every host thread has returned
ExecutorQuiet ==
    /\ px.outcome # "none"
    /\ \A h \in ExecutorHosts : px.threads[h].pc \in {"idle", "returned"}

C40_NoLogEntryLost ==
    (px.entry = "_execute_tasks_on_hosts" /\ ExecutorQuiet) =>
        \A e \in px.added : \E n \in 1..Len(px.logs) : px.logs[n] = e

====
